---- MODULE Spec2Model ----
(***************************************************************************)
(* Model of the hotel competitiveness engine: DataProcessor                *)
(* (src/src/data_processor.py) and the objects built on it.                *)
(*                                                                         *)
(* Numbers.  A pandas/Python float is a record [k, v]: k = "fin" with v    *)
(* the value in hundredths (fixed point, 12.34 is v = 1234), or k = "nan", *)
(* "inf", "ninf" with v = 0.  Divisions round to the nearest hundredth.    *)
(* Tables.  A DataFrame is [isNone, cols, rows]: cols the set of column    *)
(* names, rows a sequence of functions from cols to cell values.           *)
(***************************************************************************)
EXTENDS Integers, Sequences, FiniteSets, TLC

VARIABLES hound_internal, hound_external, extranet, ret, agent, session_state

vars == <<hound_internal, hound_external, extranet, ret, agent, session_state>>

\* The conversational agent and the application's session.
frontend == <<agent, session_state>>

tables == <<hound_internal, hound_external, extranet>>

(* ------------------------------ bounds -------------------------------- *)

\* Longest external-offers table drawn for the scorer's specification.
MaxRows == 3

\* Longest configuration table drawn for the validator's specification.
MaxConfigRows == 2

\* Longest internal-rates table drawn for the correlator's specification.
MaxRates == 3

(* ------------------------------ floats -------------------------------- *)

Fin(v) == [k |-> "fin", v |-> v]

NaN == [k |-> "nan", v |-> 0]

PosInf == [k |-> "inf", v |-> 0]

NegInf == [k |-> "ninf", v |-> 0]

\* A whole number n as a float.
Num(n) == Fin(n * 100)

IsFin(x) == x.k = "fin"

IsNaN(x) == x.k = "nan"

\* a / b for b > 0, rounded to the nearest integer.
RoundDiv(a, b) == (2 * a + b) \div (2 * b)

Abs(n) == IF n < 0 THEN 0 - n ELSE n

\* IEEE division of two floats that are finite or NaN.
FDiv(a, b) ==
    IF IsNaN(a) \/ IsNaN(b) THEN NaN
    ELSE IF b.v = 0
         THEN (IF a.v = 0 THEN NaN ELSE IF a.v > 0 THEN PosInf ELSE NegInf)
         ELSE IF b.v > 0 THEN Fin(RoundDiv(a.v * 100, b.v))
              ELSE Fin(RoundDiv((0 - a.v) * 100, 0 - b.v))

\* (comp - own) / own * 100 for operands that are finite or NaN; the quotient
\* is scaled before it is rounded, so no precision is lost to the fixed point.
PriceDiffPct(own, comp) ==
    IF IsNaN(own) \/ IsNaN(comp) THEN NaN
    ELSE IF own.v = 0
         THEN (IF comp.v = 0 THEN NaN ELSE IF comp.v > 0 THEN PosInf ELSE NegInf)
         ELSE IF own.v > 0 THEN Fin(RoundDiv((comp.v - own.v) * 10000, own.v))
              ELSE Fin(RoundDiv((own.v - comp.v) * 10000, 0 - own.v))

(* ------------------------------ tables -------------------------------- *)

None == [isNone |-> TRUE, cols |-> {}, rows |-> <<>>]

Table(cols, rows) == [isNone |-> FALSE, cols |-> cols, rows |-> rows]

\* The column names the code reads.
HOTEL_EXT == "Nombre_Hotel"

OWN == "price_despegar (USD)"

COMP == "buyers_best_price_competitor_total (USD)"

PAM == "PamBaseRate ($)"

PPN_OWN == "price_per_night_despegar"

PPN_COMP == "price_per_night_competitor"

DIFF == "price_diff_pct"

\* df[col] = f(row) for every row: the column is added or overwritten.
SetCol(t, col, f(_)) ==
    [t EXCEPT !.cols = @ \cup {col},
              !.rows = [i \in 1..Len(@) |->
                          [c \in DOMAIN @[i] \cup {col} |->
                              IF c = col THEN f(@[i]) ELSE @[i][c]]]]

\* df[df[col] == value]
Filter(t, col, value) ==
    [t EXCEPT !.rows = SelectSeq(@, LAMBDA r : r[col] = value)]

(* --------------------------- text and dates --------------------------- *)

Digits == {"0", "1", "2", "3", "4", "5", "6", "7", "8", "9"}

DigitVal(c) ==
    CASE c = "0" -> 0 [] c = "1" -> 1 [] c = "2" -> 2 [] c = "3" -> 3
      [] c = "4" -> 4 [] c = "5" -> 5 [] c = "6" -> 6 [] c = "7" -> 7
      [] c = "8" -> 8 [] c = "9" -> 9

\* str.replace(',', ''): a string is a sequence of one-character strings.
StripCommas(s) == SelectSeq(s, LAMBDA c : c # ",")

RECURSIVE DigitsValue(_)
DigitsValue(s) ==
    IF s = <<>> THEN 0
    ELSE 10 * DigitsValue(SubSeq(s, 1, Len(s) - 1)) + DigitVal(s[Len(s)])

\* float(s) for the texts the model draws: a run of digits, "nan", or text
\* that is no number (ValueError).  Decimal points are not drawn.
ParseFloat(s) ==
    IF s = <<"n", "a", "n">> THEN [ok |-> TRUE, val |-> NaN]
    ELSE IF s # <<>> /\ \A i \in 1..Len(s) : s[i] \in Digits
         THEN [ok |-> TRUE, val |-> Num(DigitsValue(s))]
         ELSE [ok |-> FALSE, val |-> NaN]

\* astype(str).str.replace(',', '').astype(float) of one cell.
CleanPrice(s) == ParseFloat(StripCommas(s))

\* pd.to_datetime(dayfirst=True) of the text "a/b/y", a date <<a, b, y>>:
\* day a of month b; text that is no date raises.
ParseDate(d) ==
    IF d[1] \in 1..31 /\ d[2] \in 1..12
    THEN [ok |-> TRUE, val |-> d[3] * 10000 + d[2] * 100 + d[1]]
    ELSE [ok |-> FALSE, val |-> 0]

(* ----------------------------- _clean_data ---------------------------- *)

price_columns == <<PAM, "ExpBaseRate ($)", "HBGBaseRate ($)">>

AllRows(t, P(_)) == \A i \in 1..Len(t.rows) : P(t.rows[i])

\* Lines 34-37: every price column present is converted in turn; a text that
\* is no number raises and leaves the columns converted so far converted.
RECURSIVE CleanInternal(_, _)
CleanInternal(t, k) ==
    IF k > Len(price_columns) THEN [ok |-> TRUE, t |-> t]
    ELSE LET col == price_columns[k] IN
         IF col \notin t.cols THEN CleanInternal(t, k + 1)
         ELSE IF ~AllRows(t, LAMBDA r : CleanPrice(r[col]).ok)
              THEN [ok |-> FALSE, t |-> t]
              ELSE CleanInternal(SetCol(t, col, LAMBDA r : CleanPrice(r[col]).val),
                                 k + 1)

\* Lines 40-42: the dates, only when there is a check_in column.
CleanDates(t) ==
    IF "check_in" \notin t.cols THEN [ok |-> TRUE, t |-> t]
    ELSE IF ~AllRows(t, LAMBDA r : ParseDate(r["check_in"]).ok)
    THEN [ok |-> FALSE, t |-> t]
    ELSE LET t1 == SetCol(t, "check_in", LAMBDA r : ParseDate(r["check_in"]).val) IN
         IF "check_out" \notin t1.cols
            \/ ~AllRows(t1, LAMBDA r : ParseDate(r["check_out"]).ok)
         THEN [ok |-> FALSE, t |-> t1]
         ELSE [ok |-> TRUE,
               t |-> SetCol(t1, "check_out", LAMBDA r : ParseDate(r["check_out"]).val)]

\* CleanDerived with the two prices of the gap exchanged.
CleanDerivedSwapped(t) ==
    IF OWN \notin t.cols \/ "los" \notin t.cols THEN [ok |-> FALSE, t |-> t]
    ELSE LET t1 == SetCol(t, PPN_OWN, LAMBDA r : FDiv(r[OWN], r["los"])) IN
         IF COMP \notin t1.cols THEN [ok |-> FALSE, t |-> t1]
         ELSE LET t2 == SetCol(t1, PPN_COMP, LAMBDA r : FDiv(r[COMP], r["los"])) IN
              [ok |-> TRUE,
               t |-> SetCol(t2, DIFF, LAMBDA r : PriceDiffPct(r[COMP], r[OWN]))]

\* Lines 45-52: the three derived columns, each assigned as soon as computed;
\* a missing source column raises KeyError.
CleanDerived(t) ==
    IF OWN \notin t.cols \/ "los" \notin t.cols THEN [ok |-> FALSE, t |-> t]
    ELSE LET t1 == SetCol(t, PPN_OWN, LAMBDA r : FDiv(r[OWN], r["los"])) IN
         IF COMP \notin t1.cols THEN [ok |-> FALSE, t |-> t1]
         ELSE LET t2 == SetCol(t1, PPN_COMP, LAMBDA r : FDiv(r[COMP], r["los"])) IN
              [ok |-> TRUE,
               t |-> SetCol(t2, DIFF, LAMBDA r : PriceDiffPct(r[OWN], r[COMP]))]

\* _clean_data on the tables just read: the tables as the call leaves them,
\* and whether it returned (ok) or raised.
CleanData(internal, external) ==
    LET ci == CleanInternal(internal, 1) IN
    IF ~ci.ok THEN [ok |-> FALSE, internal |-> ci.t, external |-> external]
    ELSE LET cd == CleanDates(external) IN
         IF ~cd.ok THEN [ok |-> FALSE, internal |-> ci.t, external |-> cd.t]
         ELSE LET cx == CleanDerived(cd.t) IN
              [ok |-> cx.ok, internal |-> ci.t, external |-> cx.t]

(* ------------------------------ load_data ----------------------------- *)

\* A CSV source: unreadable (read_csv raises), or a header and its rows.
File(cols, rows) == [readable |-> TRUE, cols |-> cols, rows |-> rows]

Unreadable == [readable |-> FALSE, cols |-> {}, rows |-> <<>>]

\* load_data(internal, external, extranet) called with the tables cur: each
\* table is assigned as soon as its file is read, then _clean_data runs on the
\* stored tables; any exception is caught and turned into False.
LoadResult(cur, fi, fe, fx) ==
    IF ~fi.readable
    THEN [ok |-> FALSE, internal |-> cur[1], external |-> cur[2], extranet |-> cur[3]]
    ELSE IF ~fe.readable
    THEN [ok |-> FALSE, internal |-> Table(fi.cols, fi.rows),
          external |-> cur[2], extranet |-> cur[3]]
    ELSE IF ~fx.readable
    THEN [ok |-> FALSE, internal |-> Table(fi.cols, fi.rows),
          external |-> Table(fe.cols, fe.rows), extranet |-> cur[3]]
    ELSE LET c == CleanData(Table(fi.cols, fi.rows), Table(fe.cols, fe.rows)) IN
         [ok |-> c.ok, internal |-> c.internal, external |-> c.external,
          extranet |-> Table(fx.cols, fx.rows)]

\* The value a call returned, or that it raised.
Returned(op, arg, val) == [op |-> op, arg |-> arg, raised |-> FALSE, val |-> val]

Raised(op, arg) == [op |-> op, arg |-> arg, raised |-> TRUE, val |-> FALSE]

(* ---------------------- validate_b2b_configuration -------------------- *)

\* Cells of the flag columns: a text, an integer, or a missing value.
PyStr(s) == [t |-> "str", s |-> s, n |-> 0]

PyInt(n) == [t |-> "int", s |-> "", n |-> n]

PyNaN == [t |-> "nan", s |-> "", n |-> 0]

\* x in ['Sí', 'Si', '1', 1]
Tildado(x) == x \in {PyStr("Sí"), PyStr("Si"), PyStr("1"), PyInt(1)}

\* Cells of Pos_Tildado: a text (a sequence of characters) or a missing value.
Text(s) == [nan |-> FALSE, s |-> s]

NoText == [nan |-> TRUE, s |-> <<>>]

\* str(cell): a missing value prints as "nan".
PyStrOf(cell) == IF cell.nan THEN <<"n", "a", "n">> ELSE cell.s

IsSpace(c) == c \in {" ", "\t"}

RECURSIVE LStrip(_)
LStrip(s) == IF s # <<>> /\ IsSpace(s[1]) THEN LStrip(Tail(s)) ELSE s

RECURSIVE RStrip(_)
RStrip(s) ==
    IF s # <<>> /\ IsSpace(s[Len(s)]) THEN RStrip(SubSeq(s, 1, Len(s) - 1)) ELSE s

\* str.strip()
Strip(s) == RStrip(LStrip(s))

\* s.split(', '): the pieces between the occurrences of comma-space.
RECURSIVE SplitCommaSpace(_)
SplitCommaSpace(s) ==
    LET hits == {i \in 1..(Len(s) - 1) : s[i] = "," /\ s[i + 1] = " "} IN
    IF hits = {} THEN <<s>>
    ELSE LET i == CHOOSE j \in hits : \A k \in hits : j <= k IN
         <<SubSeq(s, 1, i - 1)>> \o SplitCommaSpace(SubSeq(s, i + 2, Len(s)))

\* float(x) >= 0.90, False for a missing value.
GoodAvailability(x) == IsFin(x) /\ x.v >= 90

\* Lines 67-75: the seven checks of one configuration record.
Validations(row) ==
    [api_configured |-> Tildado(row["Api_Tildado"]),
     html_configured |-> Tildado(row["HTML_Tildado"]),
     wrapper_configured |-> Tildado(row["availableWrapper"]),
     prepago_configured |-> Tildado(row["PrepagoActivo"]),
     rate_type_valid |-> row["Rate_type"] # "STANDALONE",
     has_markets |-> Strip(PyStrOf(row["Pos_Tildado"])) # <<>>,
     good_availability |-> GoodAvailability(row["Disponibilidad"])]

\* sum(validations.values())
Passing(v) == Cardinality({c \in DOMAIN v : v[c]})

\* Line 78: sum / len * 100, in hundredths.
ConfigScore(v) == RoundDiv(Passing(v) * 10000, Cardinality(DOMAIN v))

\* round(x, 1) of a value in hundredths.
Round1(x) == RoundDiv(x, 10) * 10

\* CriticalIssues that also reports a failing availability check.
CriticalIssuesWithAvailability(v) ==
    (IF v.api_configured THEN <<>> ELSE <<"API no configurado">>)
    \o (IF v.html_configured THEN <<>> ELSE <<"HTML no configurado">>)
    \o (IF v.wrapper_configured THEN <<>> ELSE <<"Wrapper no habilitado">>)
    \o (IF v.prepago_configured THEN <<>> ELSE <<"Prepago no activo">>)
    \o (IF v.rate_type_valid THEN <<>> ELSE <<"Rate type STANDALONE no recomendado">>)
    \o (IF v.good_availability THEN <<>> ELSE <<"Disponibilidad baja">>)

\* Lines 81-91: the critical issues, in the order the code appends them.
CriticalIssues(v) ==
    (IF v.api_configured THEN <<>> ELSE <<"API no configurado">>)
    \o (IF v.html_configured THEN <<>> ELSE <<"HTML no configurado">>)
    \o (IF v.wrapper_configured THEN <<>> ELSE <<"Wrapper no habilitado">>)
    \o (IF v.prepago_configured THEN <<>> ELSE <<"Prepago no activo">>)
    \o (IF v.rate_type_valid THEN <<>> ELSE <<"Rate type STANDALONE no recomendado">>)

\* StatusOf with the two thresholds tested in the wrong order.
StatusOfSwapped(score) ==
    IF score >= 7000 THEN "good" ELSE IF score >= 8500 THEN "optimal" ELSE "critical"

\* Lines 94-102: the tier of the unrounded score (in hundredths).
StatusOf(score) ==
    IF score >= 8500 THEN "optimal" ELSE IF score >= 7000 THEN "good" ELSE "critical"

PriorityOf(score) ==
    IF score >= 8500 THEN "low" ELSE IF score >= 7000 THEN "medium" ELSE "high"

\* Lines 104-113: the entry stored for one record.
ValidateRow(row) ==
    LET v == Validations(row)
        config_score == ConfigScore(v)
    IN [config_score |-> Round1(config_score),
        status |-> StatusOf(config_score),
        priority |-> PriorityOf(config_score),
        validations |-> v,
        critical_issues |-> CriticalIssues(v),
        markets_configured |-> SplitCommaSpace(PyStrOf(row["Pos_Tildado"])),
        rate_type |-> row["Rate_type"],
        availability |-> row["Disponibilidad"]]

\* The hotel_name argument: a name, or None.
NoneArg == "<None>"

\* if hotel_name: false for None and for the empty string.
Truthy(h) == h \notin {NoneArg, ""}

ExtranetCols ==
    {"Hotel", "Api_Tildado", "HTML_Tildado", "availableWrapper", "PrepagoActivo",
     "Rate_type", "Pos_Tildado", "Disponibilidad"}

\* ValidateB2B that ignores the hotel asked for.
ValidateB2BUnfiltered(x, hotel_name) ==
    LET hotels == {x.rows[i]["Hotel"] : i \in 1..Len(x.rows)}
        last(h) == CHOOSE i \in 1..Len(x.rows) :
                      /\ x.rows[i]["Hotel"] = h
                      /\ \A j \in 1..Len(x.rows) : x.rows[j]["Hotel"] = h => j <= i
    IN [h \in hotels |-> ValidateRow(x.rows[last(h)])]

\* validate_b2b_configuration(hotel_name) on the configuration table x: the
\* mapping built row by row, a later record of a hotel replacing an earlier.
ValidateB2B(x, hotel_name) ==
    LET df == IF Truthy(hotel_name) THEN Filter(x, "Hotel", hotel_name) ELSE x
        hotels == {df.rows[i]["Hotel"] : i \in 1..Len(df.rows)}
        last(h) == CHOOSE i \in 1..Len(df.rows) :
                      /\ df.rows[i]["Hotel"] = h
                      /\ \A j \in 1..Len(df.rows) : df.rows[j]["Hotel"] = h => j <= i
    IN [h \in hotels |-> ValidateRow(df.rows[last(h)])]

\* The call raises on a missing table (None has no copy), on a missing Hotel
\* column when filtering, and on any missing column once a row is visited.
ValidateB2BRaises(x, hotel_name) ==
    \/ x.isNone
    \/ Truthy(hotel_name) /\ "Hotel" \notin x.cols
    \/ LET df == IF Truthy(hotel_name) THEN Filter(x, "Hotel", hotel_name) ELSE x
       IN df.rows # <<>> /\ ~(ExtranetCols \subseteq x.cols)

(* ------------------------------ statistics ---------------------------- *)

\* a < b on floats: False when either is NaN.
FLt(a, b) ==
    /\ ~IsNaN(a) /\ ~IsNaN(b)
    /\ \/ a.k = "ninf" /\ b.k # "ninf"
       \/ a.k = "fin" /\ b.k = "inf"
       \/ a.k = "fin" /\ b.k = "fin" /\ a.v < b.v

\* a - b on floats.
FSub(a, b) ==
    IF IsNaN(a) \/ IsNaN(b) THEN NaN
    ELSE IF IsFin(a) /\ IsFin(b) THEN Fin(a.v - b.v)
    ELSE IF IsFin(b) THEN a
    ELSE IF IsFin(a) THEN (IF b.k = "inf" THEN NegInf ELSE PosInf)
    ELSE IF a.k = b.k THEN NaN ELSE a

\* Python's min(a, b) and max(a, b): the second argument wins only when the
\* comparison with the first is true, so a NaN second argument never wins.
PyMin(a, b) == IF FLt(b, a) THEN b ELSE a

PyMax(a, b) == IF FLt(a, b) THEN b ELSE a

RECURSIVE SumSeq(_)
SumSeq(s) == IF s = <<>> THEN 0 ELSE Head(s) + SumSeq(Tail(s))

\* The largest r in lo..hi with r * r <= x.
RECURSIVE SqrtSearch(_, _, _)
SqrtSearch(x, lo, hi) ==
    IF lo >= hi THEN lo
    ELSE LET mid == (lo + hi + 1) \div 2 IN
         IF mid * mid <= x THEN SqrtSearch(x, mid, hi) ELSE SqrtSearch(x, lo, mid - 1)

\* sqrt(x) rounded to the nearest integer, 0 <= x < 2^31.
ISqrt(x) ==
    LET r == SqrtSearch(x, 0, 46340) IN IF x - r * r > r THEN r + 1 ELSE r

\* What a reduction sees of a column: the values that are not NaN (skipna).
DropNaN(s) == SelectSeq(s, LAMBDA x : ~IsNaN(x))

Values(s) == [i \in 1..Len(s) |-> s[i].v]

HasKind(s, k) == \E i \in 1..Len(s) : s[i].k = k

\* Series.mean(): NaN for no value, the IEEE sum when an infinity is present.
Mean(col) ==
    LET s == DropNaN(col) IN
    IF s = <<>> THEN NaN
    ELSE IF HasKind(s, "inf") /\ HasKind(s, "ninf") THEN NaN
    ELSE IF HasKind(s, "inf") THEN PosInf
    ELSE IF HasKind(s, "ninf") THEN NegInf
    ELSE Fin(RoundDiv(SumSeq(Values(s)), Len(s)))

\* Series.std(): the sample standard deviation (ddof = 1), NaN for fewer than
\* two values and when an infinity is present.
Std(col) ==
    LET s == DropNaN(col) IN
    IF Len(s) < 2 \/ HasKind(s, "inf") \/ HasKind(s, "ninf") THEN NaN
    ELSE LET m == RoundDiv(SumSeq(Values(s)), Len(s))
             ssd == SumSeq([i \in 1..Len(s) |-> (s[i].v - m) * (s[i].v - m)])
         IN Fin(ISqrt(RoundDiv(ssd, Len(s) - 1)))

Column(t, col) == [i \in 1..Len(t.rows) |-> t.rows[i][col]]

(* ------------------- calculate_competitiveness_score ------------------ *)

ComboCols == <<"PoS", "check_in", "check_out", "adults", "children">>

\* Lines 238-239.
PriceScore(external_data) ==
    PyMax(Num(0), PyMin(Num(100), FSub(Num(50), Mean(Column(external_data, DIFF)))))

\* Lines 242-245: distinct search combinations over rows, times 100.
AvailabilityScore(external_data) ==
    LET total_searches == Len(external_data.rows)
        unique_combinations ==
            {[k \in 1..Len(ComboCols) |-> external_data.rows[i][ComboCols[k]]] :
                i \in 1..total_searches}
        denom == IF total_searches > 1 THEN total_searches ELSE 1
    IN Fin(RoundDiv(Cardinality(unique_combinations) * 10000, denom))

\* ConsistencyScore without its floor.
ConsistencyScoreUnclamped(external_data) ==
    FSub(Num(100), Std(Column(external_data, DIFF)))

\* Lines 248-249.
ConsistencyScore(external_data) ==
    PyMax(Num(0), FSub(Num(100), Std(Column(external_data, DIFF))))

\* Lines 252-253: the validator's rounded score, 0 without a record.
B2BScore(x, hotel_name) ==
    LET b2b_validation == ValidateB2B(x, hotel_name) IN
    IF hotel_name \in DOMAIN b2b_validation
    THEN Fin(b2b_validation[hotel_name].config_score) ELSE Num(0)

\* FinalScore with four equal weights.
FinalScoreEqualWeights(price, availability, consistency, b2b) ==
    Fin(RoundDiv(25 * price.v + 25 * availability.v + 25 * consistency.v
                 + 25 * b2b.v, 100))

\* Lines 256-263: the weighted sum, rounded to two decimals.
FinalScore(price, availability, consistency, b2b) ==
    Fin(RoundDiv(30 * price.v + 25 * availability.v + 25 * consistency.v
                 + 20 * b2b.v, 100))

\* CompetitivenessScore without the early return for a hotel without offers.
CompetitivenessScoreNoEarlyReturn(e, x, hotel_name) ==
    LET external_data == Filter(e, HOTEL_EXT, hotel_name) IN
    FinalScore(PriceScore(external_data), AvailabilityScore(external_data),
               ConsistencyScore(external_data), B2BScore(x, hotel_name))

\* calculate_competitiveness_score(hotel_name) on the stored tables.
CompetitivenessScore(e, x, hotel_name) ==
    LET external_data == Filter(e, HOTEL_EXT, hotel_name) IN
    IF external_data.rows = <<>> THEN Num(0)
    ELSE FinalScore(PriceScore(external_data), AvailabilityScore(external_data),
                    ConsistencyScore(external_data), B2BScore(x, hotel_name))

\* The call raises on a missing table or hotel column and, once the hotel has
\* rows, on a missing gap or search column and when the validator raises.
CompetitivenessScoreRaises(e, x, hotel_name) ==
    \/ e.isNone
    \/ HOTEL_EXT \notin e.cols
    \/ /\ Filter(e, HOTEL_EXT, hotel_name).rows # <<>>
       /\ \/ DIFF \notin e.cols
          \/ \E k \in 1..Len(ComboCols) : ComboCols[k] \notin e.cols
          \/ ValidateB2BRaises(x, hotel_name)

(* ---- analyze_market_opportunities (competitive_analyzer.py 117-167) --- *)

\* The statistics of the classifier are kept to four decimals (v counts
\* ten-thousandths), so that round(x, 2) is a conversion that loses digits.
Scale4(x) == IF IsFin(x) THEN Fin(x.v * 100) ELSE x

\* round(x, 2) of a four-decimal float, as a two-decimal float.
Round2(x) == IF IsFin(x) THEN Fin(RoundDiv(x.v, 100)) ELSE x

\* Series.mean() of a two-decimal column, to four decimals.
Mean4(col) ==
    LET s == DropNaN(col) IN
    IF s # <<>> /\ \A i \in 1..Len(s) : IsFin(s[i])
    THEN Fin(RoundDiv(100 * SumSeq(Values(s)), Len(s)))
    ELSE Mean(col)

\* OpportunityType with both thresholds inclusive.
OpportunityTypeInclusive(avg_diff) ==
    IF ~FLt(Fin(0 - 50000), avg_diff) /\ ~IsNaN(avg_diff)
    THEN [opportunity_type |-> "Subir precios", priority |-> "Media"]
    ELSE IF ~FLt(avg_diff, Fin(100000)) /\ ~IsNaN(avg_diff)
    THEN [opportunity_type |-> "Bajar precios", priority |-> "Alta"]
    ELSE [opportunity_type |-> "Monitorear", priority |-> "Baja"]

\* Lines 134-142: the type and priority of a market from its mean gap.
OpportunityType(avg_diff) ==
    IF FLt(avg_diff, Fin(0 - 50000))
    THEN [opportunity_type |-> "Subir precios", priority |-> "Media"]
    ELSE IF FLt(Fin(100000), avg_diff)
    THEN [opportunity_type |-> "Bajar precios", priority |-> "Alta"]
    ELSE [opportunity_type |-> "Monitorear", priority |-> "Baja"]

\* The sum of three four-decimal floats of which none is NaN or -inf.
Sum3(a, b, c) ==
    IF IsFin(a) /\ IsFin(b) /\ IsFin(c) THEN Fin(a.v + b.v + c.v) ELSE PosInf

\* CalculateMarketScore without the floor of the stability component.
CalculateMarketScoreNoFloor(avg_diff, volatility, volume) ==
    LET price_component == PyMax(Fin(0), FSub(Fin(500000), avg_diff))
        stability_component ==
            IF IsNaN(volatility) THEN Fin(0) ELSE FSub(Fin(500000), volatility)
        volume_component == PyMin(Fin(500000), Fin(volume * 1000))
        total == Sum3(price_component, stability_component, volume_component)
    IN IF IsFin(total) THEN Fin(RoundDiv(total.v, 300)) ELSE total

\* _calculate_market_score(avg_diff, volatility, volume), lines 158-167.
CalculateMarketScore(avg_diff, volatility, volume) ==
    LET price_component == PyMax(Fin(0), FSub(Fin(500000), avg_diff))
        stability_component == PyMax(Fin(0), FSub(Fin(500000), volatility))
        volume_component == PyMin(Fin(500000), Fin(volume * 1000))
        total == Sum3(price_component, stability_component, volume_component)
    IN IF IsFin(total) THEN Fin(RoundDiv(total.v, 300)) ELSE total

\* Lines 127-153: the entry of one market from its rows.
MarketEntry(pos_data) ==
    LET avg_diff == Mean4(Column(pos_data, DIFF))
        volatility == Std(Column(pos_data, DIFF))
        volume == Len(pos_data.rows)
        agencies == Cardinality({pos_data.rows[i]["agency_name"] :
                                    i \in 1..Len(pos_data.rows)})
        kind == OpportunityType(avg_diff)
    IN [avg_price_diff |-> Round2(avg_diff),
        volatility |-> volatility,
        search_volume |-> volume,
        interested_agencies |-> agencies,
        opportunity_type |-> kind.opportunity_type,
        priority |-> kind.priority,
        competitiveness_score |->
            CalculateMarketScore(avg_diff, Scale4(volatility), volume)]

\* analyze_market_opportunities(hotel_name): a mapping from each market of the
\* hotel's offers to its entry, the empty mapping for a hotel without offers.
MarketOpportunities(e, hotel_name) ==
    LET data == Filter(e, HOTEL_EXT, hotel_name)
        markets == {data.rows[i]["PoS"] : i \in 1..Len(data.rows)}
    IN [pos \in markets |-> MarketEntry(Filter(data, "PoS", pos))]

MarketOpportunitiesRaises(e, hotel_name) ==
    \/ e.isNone
    \/ HOTEL_EXT \notin e.cols
    \/ /\ Filter(e, HOTEL_EXT, hotel_name).rows # <<>>
       /\ ~({"PoS", DIFF, "agency_name"} \subseteq e.cols)

(* ----- identify_pricing_anomalies (competitive_analyzer.py 169-199) ---- *)

\* The threshold of a call that passes none.
DefaultThreshold == Num(2)

\* strftime('%Y-%m-%d') of a parsed date: its year, month and day.
StrfYmd(d) == <<d \div 10000, (d \div 100) % 100, d % 100>>

\* Line 179: abs((gap - mean) / std) of one row, to two decimals.
ZScore(gap, mean, std) ==
    IF IsFin(gap) /\ IsFin(mean) /\ IsFin(std)
    THEN FDiv(Fin(Abs(gap.v - mean.v)), std)
    ELSE NaN

\* ZExceeds as "not z <= threshold", which a NaN z-score satisfies.
ZNotBelow(gap, mean, std, threshold) ==
    ~(/\ IsFin(gap) /\ IsFin(mean) /\ IsFin(std)
      /\ std.v > 0
      /\ Abs(gap.v - mean.v) * 100 <= threshold.v * std.v)

\* Line 182: z_score > threshold, compared before any rounding; False for a
\* NaN z-score (0 / 0, or an undefined mean or deviation).
ZExceeds(gap, mean, std, threshold) ==
    /\ IsFin(gap) /\ IsFin(mean) /\ IsFin(std)
    /\ IF std.v = 0 THEN gap.v # mean.v
       ELSE Abs(gap.v - mean.v) * 100 > threshold.v * std.v

\* The columns an entry reads.
AnomalyCols ==
    {"check_in", "PoS", "adults", "children", "los", "agency_name", OWN, COMP}

\* Lines 185-196: the entry of one outlier row.
Anomaly(row, mean, std) ==
    [date |-> StrfYmd(row["check_in"]),
     pos |-> row["PoS"],
     adults |-> row["adults"],
     children |-> row["children"],
     los |-> row["los"],
     price_diff_pct |-> row[DIFF],
     z_score |-> ZScore(row[DIFF], mean, std),
     agency |-> row["agency_name"],
     our_price |-> row[OWN],
     competitor_price |-> row[COMP]]

\* e placed in s, which is in non-increasing order of abs(price_diff_pct),
\* after the entries whose key is greater or equal.
RECURSIVE InsertByAbsGap(_, _)
InsertByAbsGap(e, s) ==
    IF s = <<>> THEN <<e>>
    ELSE IF Abs(Head(s).price_diff_pct.v) >= Abs(e.price_diff_pct.v)
    THEN <<Head(s)>> \o InsertByAbsGap(e, Tail(s))
    ELSE <<e>> \o s

\* Line 199: sorted(anomalies, key = abs gap, reverse = True), a stable sort.
RECURSIVE SortedByAbsGap(_)
SortedByAbsGap(s) ==
    IF s = <<>> THEN <<>>
    ELSE InsertByAbsGap(s[Len(s)], SortedByAbsGap(SubSeq(s, 1, Len(s) - 1)))

\* Lines 179-182: the rows of the hotel whose z-score exceeds the threshold.
Outliers(e, hotel_name, threshold) ==
    LET data == Filter(e, HOTEL_EXT, hotel_name)
        mean == Mean(Column(data, DIFF))
        std == Std(Column(data, DIFF))
    IN SelectSeq(data.rows, LAMBDA r : ZExceeds(r[DIFF], mean, std, threshold))

\* Lines 184-196: the entries of the outliers, in row order.
Anomalies(e, hotel_name, threshold) ==
    LET data == Filter(e, HOTEL_EXT, hotel_name)
        mean == Mean(Column(data, DIFF))
        std == Std(Column(data, DIFF))
        outliers == Outliers(e, hotel_name, threshold)
    IN [i \in 1..Len(outliers) |-> Anomaly(outliers[i], mean, std)]

\* PricingAnomalies without the final sort.
PricingAnomaliesUnsorted(e, hotel_name, threshold) ==
    Anomalies(e, hotel_name, threshold)

\* identify_pricing_anomalies(hotel_name, threshold).
PricingAnomalies(e, hotel_name, threshold) ==
    SortedByAbsGap(Anomalies(e, hotel_name, threshold))

\* OffersAfterAnomalies with the z_score column written to the stored rows.
OffersAfterAnomaliesInPlace(e, hotel_name) ==
    IF e.isNone \/ Filter(e, HOTEL_EXT, hotel_name).rows = <<>> THEN e
    ELSE SetCol(e, "z_score",
                LAMBDA r : ZScore(r[DIFF], Mean(Column(e, DIFF)), Std(Column(e, DIFF))))

\* The stored offers after the call: line 179 adds the z_score column to the
\* rows selected at line 172, which are a copy of the stored ones.
OffersAfterAnomalies(e, hotel_name) == e

PricingAnomaliesRaises(e, hotel_name, threshold) ==
    \/ e.isNone
    \/ HOTEL_EXT \notin e.cols
    \/ /\ Filter(e, HOTEL_EXT, hotel_name).rows # <<>>
       /\ \/ DIFF \notin e.cols
          \/ /\ Outliers(e, hotel_name, threshold) # <<>>
             /\ ~(AnomalyCols \subseteq e.cols)

(* --------------- cross_market_analysis (lines 265-294) ----------------- *)

\* Within with the boundary excluded.
WithinStrict(external_price, pam_rate) ==
    /\ IsFin(pam_rate)
    /\ Abs(external_price.v - pam_rate.v) * 100 < 15 * Abs(pam_rate.v)

\* Lines 279-281: abs((external_price - pam_rate) / pam_rate * 100) <= 15,
\* compared before any rounding; False for a NaN rate.  The rate is not 0.
Within(external_price, pam_rate) ==
    /\ IsFin(pam_rate)
    /\ Abs(external_price.v - pam_rate.v) * 100 <= 15 * Abs(pam_rate.v)

\* Lines 282-288: the entry of a matching rate record.
Match(row, external_price) ==
    [pos |-> row["PoS"],
     pam_rate |-> row[PAM],
     external_price |-> external_price,
     difference_pct |->
        Fin(RoundDiv(Abs(external_price.v - row[PAM].v) * 10000, Abs(row[PAM].v))),
     currency |-> row["contractcurrencybase_pam"]]

\* e placed in s, which is in non-decreasing order of difference_pct, after
\* the entries whose key is smaller or equal.
RECURSIVE InsertByDifference(_, _)
InsertByDifference(e, s) ==
    IF s = <<>> THEN <<e>>
    ELSE IF Head(s).difference_pct.v <= e.difference_pct.v
    THEN <<Head(s)>> \o InsertByDifference(e, Tail(s))
    ELSE <<e>> \o s

\* Line 292: sorted(matches, key = difference_pct), a stable sort.
RECURSIVE SortedByDifference(_)
SortedByDifference(s) ==
    IF s = <<>> THEN <<>>
    ELSE InsertByDifference(s[Len(s)], SortedByDifference(SubSeq(s, 1, Len(s) - 1)))

\* cross_market_analysis(external_price, hotel_name) on internal rates whose
\* rate column has been converted to floats.
CrossMarket(n, external_price, hotel_name) ==
    LET internal_data == Filter(n, HOTEL_EXT, hotel_name)
        similar == SelectSeq(internal_data.rows,
                             LAMBDA r : Within(external_price, r[PAM]))
        matches == [i \in 1..Len(similar) |-> Match(similar[i], external_price)]
    IN IF internal_data.rows = <<>>
       THEN [match_found |-> FALSE,
             analysis |-> [text |-> "Hotel no encontrado en datos internos",
                           count |-> 0]]
       ELSE [match_found |-> Len(matches) > 0,
             matches |-> SortedByDifference(matches),
             analysis |-> IF matches # <<>>
                          THEN [text |-> "Encontrados {} mercados similares",
                                count |-> Len(matches)]
                          ELSE [text |-> "No se encontraron mercados similares",
                                count |-> 0]]

\* The call raises on a missing table or hotel column and, once the hotel has
\* records, on a missing rate column, on a rate of 0 (the rate of a row is a
\* Python float: ZeroDivisionError) and on a missing column of an entry.
CrossMarketRaises(n, external_price, hotel_name) ==
    \/ n.isNone
    \/ HOTEL_EXT \notin n.cols
    \/ LET internal_data == Filter(n, HOTEL_EXT, hotel_name) IN
       /\ internal_data.rows # <<>>
       /\ \/ PAM \notin n.cols
          \/ \E i \in 1..Len(internal_data.rows) :
                internal_data.rows[i][PAM] = Fin(0)
          \/ /\ \E i \in 1..Len(internal_data.rows) :
                   Within(external_price, internal_data.rows[i][PAM])
             /\ ~({"PoS", "contractcurrencybase_pam"} \subseteq n.cols)

(* ------------- simulate_conversion_impact (lines 296-339) -------------- *)

\* a + b on four-decimal floats, b finite.
FAdd(a, b) == IF IsFin(a) THEN Fin(a.v + b.v) ELSE a

\* NewPriceDiff with the change subtracted.
NewPriceDiffSubtracted(current_avg_diff, price_change_pct) ==
    FAdd(current_avg_diff, Fin(0 - price_change_pct.v * 100))

\* Line 311: the mean gap after the change, to four decimals.
NewPriceDiff(current_avg_diff, price_change_pct) ==
    FAdd(current_avg_diff, Scale4(price_change_pct))

\* Line 307: (price_diff_pct < 0).sum().
CompetitivePositions(external_data) ==
    Cardinality({i \in 1..Len(external_data.rows) :
                    FLt(external_data.rows[i][DIFF], Fin(0))})

\* round(x) of x >= 0 given in ten-thousandths: to the nearest integer, a
\* tie to the even one.
RoundHalfEven(x) ==
    LET q == x \div 10000
        r == x % 10000
    IN IF r > 5000 \/ (r = 5000 /\ q % 2 = 1) THEN q + 1 ELSE q

\* NewCompetitivePositions with an elasticity of +2.0.
NewCompetitivePositionsRising(current, total, price_change_pct) ==
    LET moved == current * 10000 + 2 * price_change_pct.v * total
        floored == IF 0 < moved THEN moved ELSE 0
        capped == IF floored < total * 10000 THEN floored ELSE total * 10000
    IN RoundHalfEven(capped)

\* Lines 314-318 and 335: competitiveness_change = price_change_pct * -2.0,
\* current + (competitiveness_change / 100) * total floored at 0 and capped at
\* total, then rounded; exact in ten-thousandths of a position.
NewCompetitivePositions(current, total, price_change_pct) ==
    LET moved == current * 10000 - 2 * price_change_pct.v * total
        floored == IF 0 < moved THEN moved ELSE 0
        capped == IF floored < total * 10000 THEN floored ELSE total * 10000
    IN RoundHalfEven(capped)

\* B2BMultiplier falling with the configuration score.
B2BMultiplierFalling(x, hotel_name) ==
    LET b2b_validation == ValidateB2B(x, hotel_name) IN
    IF hotel_name \in DOMAIN b2b_validation
    THEN 10000 - b2b_validation[hotel_name].config_score \div 2
    ELSE 10000

\* Lines 321-325, in ten-thousandths: 1.0 without a configuration record,
\* else 0.5 + (config_score / 100) * 0.5.
B2BMultiplier(x, hotel_name) ==
    LET b2b_validation == ValidateB2B(x, hotel_name) IN
    IF hotel_name \in DOMAIN b2b_validation
    THEN 5000 + b2b_validation[hotel_name].config_score \div 2
    ELSE 10000

\* ConversionImpact without the early return for a hotel without offers.
ConversionImpactNoEarlyReturn(e, x, hotel_name, price_change_pct) ==
    LET external_data == Filter(e, HOTEL_EXT, hotel_name)
        current_avg_diff == Mean4(Column(external_data, DIFF))
        b2b_multiplier == IF external_data.rows = <<>> THEN 10000
                          ELSE B2BMultiplier(x, hotel_name)
    IN [current_avg_diff_pct |-> Round2(current_avg_diff),
        new_avg_diff_pct |-> Round2(NewPriceDiff(current_avg_diff, price_change_pct)),
        current_competitive_positions |-> CompetitivePositions(external_data),
        new_competitive_positions |->
            NewCompetitivePositions(CompetitivePositions(external_data),
                                    Len(external_data.rows), price_change_pct),
        estimated_conversion_change_pct |->
            Fin(RoundDiv((0 - price_change_pct.v) * b2b_multiplier, 10000)),
        total_positions |-> Len(external_data.rows),
        b2b_config_impact |-> Fin(10 * RoundDiv(b2b_multiplier - 10000, 10))]

\* simulate_conversion_impact(hotel_name, price_change_pct).
ConversionImpact(e, x, hotel_name, price_change_pct) ==
    LET external_data == Filter(e, HOTEL_EXT, hotel_name)
        current_avg_diff == Mean4(Column(external_data, DIFF))
        current_competitive_positions == CompetitivePositions(external_data)
        total_positions == Len(external_data.rows)
        b2b_multiplier == B2BMultiplier(x, hotel_name)
    IN IF external_data.rows = <<>> THEN [error |-> "Hotel no encontrado"]
       ELSE [current_avg_diff_pct |-> Round2(current_avg_diff),
             new_avg_diff_pct |->
                Round2(NewPriceDiff(current_avg_diff, price_change_pct)),
             current_competitive_positions |-> current_competitive_positions,
             new_competitive_positions |->
                NewCompetitivePositions(current_competitive_positions,
                                        total_positions, price_change_pct),
             estimated_conversion_change_pct |->
                Fin(RoundDiv((0 - price_change_pct.v) * b2b_multiplier, 10000)),
             total_positions |-> total_positions,
             b2b_config_impact |-> Fin(10 * RoundDiv(b2b_multiplier - 10000, 10))]

\* The call raises on a missing table or hotel column and, once the hotel has
\* rows, on a missing gap column and when the validator raises.
ConversionImpactRaises(e, x, hotel_name) ==
    \/ e.isNone
    \/ HOTEL_EXT \notin e.cols
    \/ /\ Filter(e, HOTEL_EXT, hotel_name).rows # <<>>
       /\ \/ DIFF \notin e.cols
          \/ ValidateB2BRaises(x, hotel_name)

(* ------------------- get_hotel_summary (lines 341-374) ----------------- *)

\* Series.unique(): the distinct values, in order of first appearance.
RECURSIVE Unique(_)
Unique(s) ==
    IF s = <<>> THEN <<>>
    ELSE LET front == Unique(SubSeq(s, 1, Len(s) - 1)) IN
         IF \E i \in 1..Len(front) : front[i] = s[Len(s)] THEN front
         ELSE Append(front, s[Len(s)])

\* get_hotel_summary(hotel_name): the fixed fields, then those of a hotel
\* with offers, then those of a hotel with a configuration record.
HotelSummary(n, e, x, hotel_name) ==
    LET external_data == Filter(e, HOTEL_EXT, hotel_name)
        internal_data == Filter(n, HOTEL_EXT, hotel_name)
        extranet_data == Filter(x, "Hotel", hotel_name)
        b2b_validation == ValidateB2B(x, hotel_name)
        summary ==
            [hotel_name |-> hotel_name,
             total_external_records |-> Len(external_data.rows),
             total_internal_records |-> Len(internal_data.rows),
             markets_pos |-> IF external_data.rows # <<>>
                             THEN Unique(Column(external_data, "PoS")) ELSE <<>>,
             competitiveness_score |-> CompetitivenessScore(e, x, hotel_name)]
        offers ==
            [avg_price_difference_pct |-> Round2(Mean4(Column(external_data, DIFF))),
             price_volatility |-> Std(Column(external_data, DIFF)),
             competitive_positions |-> CompetitivePositions(external_data),
             total_searches |-> Len(external_data.rows),
             agencies_interested |->
                Cardinality({external_data.rows[i]["agency_name"] :
                                i \in 1..Len(external_data.rows)})]
        availability == [availability |-> extranet_data.rows[1]["Disponibilidad"]]
        b2b_config == [b2b_config |-> b2b_validation[hotel_name]]
        with_offers == IF external_data.rows # <<>> THEN summary @@ offers ELSE summary
    IN IF extranet_data.rows = <<>> THEN with_offers
       ELSE IF hotel_name \in DOMAIN b2b_validation
       THEN with_offers @@ availability @@ b2b_config
       ELSE with_offers @@ availability

\* The call raises on a missing table or hotel column, when the scorer
\* raises, and on a missing column of a group of fields that is filled in.
HotelSummaryRaises(n, e, x, hotel_name) ==
    \/ e.isNone \/ n.isNone \/ x.isNone
    \/ HOTEL_EXT \notin e.cols \/ HOTEL_EXT \notin n.cols \/ "Hotel" \notin x.cols
    \/ /\ Filter(e, HOTEL_EXT, hotel_name).rows # <<>>
       /\ ~({"PoS", DIFF, "agency_name"} \subseteq e.cols)
    \/ CompetitivenessScoreRaises(e, x, hotel_name)
    \/ /\ Filter(x, "Hotel", hotel_name).rows # <<>>
       /\ ("Disponibilidad" \notin x.cols \/ ValidateB2BRaises(x, hotel_name))

(* ------------------------------- sources ------------------------------ *)

InternalCols == {HOTEL_EXT, "PoS", PAM, "contractcurrencybase_pam"}

ExternalCols ==
    {HOTEL_EXT, "PoS", "check_in", "check_out", "adults", "children", OWN, COMP,
     "los", "agency_name"}

IntRow(hotel, pos, rate) ==
    [c \in InternalCols |->
        CASE c = HOTEL_EXT -> hotel [] c = "PoS" -> pos [] c = PAM -> rate
          [] OTHER -> "USD"]

ExtRow(hotel, pos, check_in, own, comp, agency) ==
    [c \in ExternalCols |->
        CASE c = HOTEL_EXT -> hotel [] c = "PoS" -> pos
          [] c = "check_in" -> check_in [] c = "check_out" -> <<9, 3, 2025>>
          [] c = "adults" -> 2 [] c = "children" -> 0
          [] c = OWN -> own [] c = COMP -> comp
          [] c = "los" -> Num(2) [] OTHER -> agency]

CfgRow(hotel, api, html, wrapper, prepago, rate_type, pos, disp) ==
    [c \in ExtranetCols |->
        CASE c = "Hotel" -> hotel [] c = "Api_Tildado" -> api
          [] c = "HTML_Tildado" -> html [] c = "availableWrapper" -> wrapper
          [] c = "PrepagoActivo" -> prepago [] c = "Rate_type" -> rate_type
          [] c = "Pos_Tildado" -> pos [] OTHER -> disp]

\* A source without one of its columns.
DropCol(f, col) ==
    [f EXCEPT !.cols = @ \ {col},
              !.rows = [i \in 1..Len(@) |-> [c \in DOMAIN @[i] \ {col} |-> @[i][c]]]]

MarketsARBR == Text(<<"A", "R", ",", " ", "B", "R">>)

InternalA ==
    File(InternalCols,
         <<IntRow("H1", "AR", <<"1", ",", "2", "0", "0">>),
           IntRow("H1", "BR", <<"1", "0", "0">>),
           IntRow("H2", "AR", <<"2", "0", "0">>)>>)

InternalBadPrice ==
    File(InternalCols, <<IntRow("H1", "AR", <<"N", "/", "A">>)>>)

ExternalA ==
    File(ExternalCols,
         <<ExtRow("H1", "AR", <<1, 3, 2025>>, Num(100), Num(110), "ag1"),
           ExtRow("H1", "BR", <<2, 3, 2025>>, Num(200), Num(180), "ag2"),
           ExtRow("H2", "AR", <<1, 3, 2025>>, Num(0), Num(90), "ag1")>>)

ExternalB ==
    File(ExternalCols,
         <<ExtRow("H1", "AR", <<1, 3, 2025>>, Num(150), Num(100), "ag1"),
           ExtRow("H2", "BR", <<1, 3, 2025>>, NaN, Num(90), "ag2")>>)

ExternalBadDate ==
    File(ExternalCols,
         <<ExtRow("H1", "AR", <<0, 0, 0>>, Num(100), Num(110), "ag1")>>)

ExtranetA ==
    File(ExtranetCols,
         <<CfgRow("H1", PyStr("Sí"), PyInt(1), PyInt(1), PyStr("Si"), "PACKAGE",
                  MarketsARBR, Fin(95)),
           CfgRow("H2", PyStr("No"), PyInt(1), PyInt(0), PyStr("Si"), "STANDALONE",
                  MarketsARBR, Fin(80))>>)

\* The sources offered to load_data, by path.
InternalFiles ==
    [p \in {"internal.csv", "internal_no_rate.csv", "internal_bad.csv",
             "internal_missing.csv"} |->
        CASE p = "internal.csv" -> InternalA
          [] p = "internal_no_rate.csv" -> DropCol(InternalA, PAM)
          [] p = "internal_bad.csv" -> InternalBadPrice
          [] OTHER -> Unreadable]

ExternalFiles ==
    [p \in {"external.csv", "external_b.csv", "external_no_comp.csv",
             "external_bad_date.csv", "external_missing.csv"} |->
        CASE p = "external.csv" -> ExternalA
          [] p = "external_b.csv" -> ExternalB
          [] p = "external_no_comp.csv" -> DropCol(ExternalA, COMP)
          [] p = "external_bad_date.csv" -> ExternalBadDate
          [] OTHER -> Unreadable]

ExtranetFiles ==
    [p \in {"extranet.csv", "extranet_no_api.csv", "extranet_missing.csv"} |->
        CASE p = "extranet.csv" -> ExtranetA
          [] p = "extranet_no_api.csv" -> DropCol(ExtranetA, "Api_Tildado")
          [] OTHER -> Unreadable]

\* The hotel identifiers callers ask about; H3 is in no sample source.
HotelArgs == {"H1", "H2", "H3"}

(* ------------------------- the conversational agent -------------------- *)

\* HotelAgent.__init__: no hotel is selected; the absent agent.
NoAgent == [isNone |-> TRUE, current_hotel |-> NoneArg]

NewAgent == [isNone |-> FALSE, current_hotel |-> NoneArg]

\* The session before any load: the defaults of the application's first run.
FreshSession ==
    [data_loaded |-> FALSE, using_sample_data |-> FALSE, current_hotel |-> NoneArg,
     chat_history |-> <<>>, hotel_selector |-> NoneArg, competitive_analyzer |-> FALSE]

\* The data processor used on its own, without agent or application.
Detached == agent = NoAgent /\ session_state = FreshSession

\* Texts are sequences of characters.
UpperCase == <<"A", "B", "C", "D", "E", "F", "G", "H", "I", "J", "K", "L", "M", "N", "O", "P", "Q", "R", "S", "T", "U", "V", "W", "X", "Y", "Z">>

LowerCase == <<"a", "b", "c", "d", "e", "f", "g", "h", "i", "j", "k", "l", "m", "n", "o", "p", "q", "r", "s", "t", "u", "v", "w", "x", "y", "z">>

\* str.lower() of one character.
Lower(c) ==
    IF \E i \in 1..Len(UpperCase) : UpperCase[i] = c
    THEN LowerCase[CHOOSE i \in 1..Len(UpperCase) : UpperCase[i] = c]
    ELSE c

LowerStr(s) == [i \in 1..Len(s) |-> Lower(s[i])]

\* keyword in text: the keyword occurs as a contiguous piece of the text.
Contains(s, keyword) ==
    \E i \in 1..(Len(s) - Len(keyword) + 1) :
        SubSeq(s, i, i + Len(keyword) - 1) = keyword

\* str.split(): the maximal pieces without white space.
RECURSIVE SplitWords(_)
SplitWords(s) ==
    LET t == LStrip(s)
        stops == {i \in 1..Len(t) : IsSpace(t[i])}
    IN IF t = <<>> THEN <<>>
       ELSE IF stops = {} THEN <<t>>
       ELSE LET i == CHOOSE j \in stops : \A k \in stops : j <= k IN
            <<SubSeq(t, 1, i - 1)>> \o SplitWords(SubSeq(t, i + 1, Len(t)))

\* The code points of the characters of hotel names, in increasing order.
CodePoints == <<" ">> \o UpperCase \o LowerCase

Ord(c) == CHOOSE i \in 1..Len(CodePoints) : CodePoints[i] = c

\* a < b for texts: the comparison sorted() makes.
RECURSIVE StrLess(_, _)
StrLess(a, b) ==
    IF b = <<>> THEN FALSE
    ELSE IF a = <<>> THEN TRUE
    ELSE IF a[1] # b[1] THEN Ord(a[1]) < Ord(b[1])
    ELSE StrLess(Tail(a), Tail(b))

\* The name each hotel identifier of the tables stands for.
HotelText ==
    [H1 |-> <<"O", "c", "e", "a", "n", " ", "V", "i", "e", "w", " ", "G", "r", "a", "n", "d">>,
     H2 |-> <<"P", "a", "r", "a", "d", "i", "s", "e", " ", "R", "e", "s", "o", "r", "t">>,
     H3 |-> <<"C", "o", "r", "a", "l", " ", "R", "e", "s", "o", "r", "t">>]

\* Lines 57-67: the intents and their keywords, in the order of the dict.
Intents ==
    <<[intent |-> "hotel_selection",
       keywords |-> {<<"h", "o", "t", "e", "l">>,
                     <<"s", "e", "l", "e", "c", "c", "i", "o", "n", "a", "r">>,
                     <<"e", "l", "e", "g", "i", "r">>,
                     <<"c", "a", "m", "b", "i", "a", "r", " ", "h", "o", "t", "e", "l">>,
                     <<"v", "e", "r", " ", "h", "o", "t", "e", "l", "e", "s">>}],
      [intent |-> "competitiveness_analysis",
       keywords |-> {<<"c", "o", "m", "p", "e", "t", "i", "t", "i", "v", "i", "d", "a", "d">>,
                     <<"s", "c", "o", "r", "e">>,
                     <<"a", "n", "á", "l", "i", "s", "i", "s">>,
                     <<"p", "o", "s", "i", "c", "i", "ó", "n">>,
                     <<"c", "o", "m", "p", "e", "t", "i", "t", "i", "v", "o">>}],
      [intent |-> "price_comparison",
       keywords |-> {<<"p", "r", "e", "c", "i", "o">>,
                     <<"t", "a", "r", "i", "f", "a">>,
                     <<"c", "o", "m", "p", "a", "r", "a", "r">>,
                     <<"d", "i", "f", "e", "r", "e", "n", "c", "i", "a">>,
                     <<"m", "á", "s", " ", "b", "a", "r", "a", "t", "o">>,
                     <<"m", "á", "s", " ", "c", "a", "r", "o">>}],
      [intent |-> "market_analysis",
       keywords |-> {<<"m", "e", "r", "c", "a", "d", "o">>,
                     <<"p", "o", "s">>,
                     <<"p", "a", "í", "s">>,
                     <<"o", "p", "o", "r", "t", "u", "n", "i", "d", "a", "d">>,
                     <<"p", "a", "t", "r", "ó", "n">>}],
      [intent |-> "recommendations",
       keywords |-> {<<"r", "e", "c", "o", "m", "e", "n", "d", "a", "c", "i", "ó", "n">>,
                     <<"s", "u", "g", "e", "r", "i", "r">>,
                     <<"q", "u", "é", " ", "h", "a", "c", "e", "r">>,
                     <<"m", "e", "j", "o", "r", "a", "r">>,
                     <<"e", "s", "t", "r", "a", "t", "e", "g", "i", "a">>}],
      [intent |-> "simulation",
       keywords |-> {<<"s", "i", "m", "u", "l", "a", "r">>,
                     <<"s", "i", "m", "u", "l", "a", "c", "i", "ó", "n">>,
                     <<"c", "a", "m", "b", "i", "a", "r", " ", "p", "r", "e", "c", "i", "o">>,
                     <<"i", "m", "p", "a", "c", "t", "o">>,
                     <<"c", "o", "n", "v", "e", "r", "s", "i", "ó", "n">>}],
      [intent |-> "cross_market",
       keywords |-> {<<"c", "r", "o", "s", "s", " ", "m", "a", "r", "k", "e", "t">>,
                     <<"o", "t", "r", "o", " ", "m", "e", "r", "c", "a", "d", "o">>,
                     <<"t", "a", "r", "i", "f", "a", " ", "s", "i", "m", "i", "l", "a", "r">>,
                     <<"c", "o", "m", "p", "a", "r", "a", "r", " ", "m", "e", "r", "c", "a", "d", "o", "s">>}],
      [intent |-> "b2b_configuration",
       keywords |-> {<<"c", "o", "n", "f", "i", "g", "u", "r", "a", "c", "i", "ó", "n">>,
                     <<"e", "x", "t", "r", "a", "n", "e", "t">>,
                     <<"b", "2", "b">>,
                     <<"a", "p", "i">>,
                     <<"h", "t", "m", "l">>,
                     <<"w", "r", "a", "p", "p", "e", "r">>,
                     <<"p", "r", "e", "p", "a", "g", "o">>,
                     <<"r", "a", "t", "e", " ", "t", "y", "p", "e">>}],
      [intent |-> "help",
       keywords |-> {<<"a", "y", "u", "d", "a">>,
                     <<"h", "e", "l", "p">>,
                     <<"q", "u", "é", " ", "p", "u", "e", "d", "e", "s", " ", "h", "a", "c", "e", "r">>,
                     <<"c", "o", "m", "a", "n", "d", "o", "s">>,
                     <<"f", "u", "n", "c", "i", "o", "n", "e", "s">>}]>>

\* Lines 69-74: the first intent having a keyword inside the input.
DetectIntent(user_input) ==
    LET hits == {i \in 1..Len(Intents) :
                    \E keyword \in Intents[i].keywords : Contains(user_input, keyword)}
    IN IF hits = {} THEN "general"
       ELSE Intents[CHOOSE i \in hits : \A j \in hits : i <= j].intent

\* get_available_hotels(): the sorted distinct hotel names, [] without table.
RECURSIVE SortedNames(_)
SortedNames(S) ==
    IF S = {} THEN <<>>
    ELSE LET first == CHOOSE h \in S :
                         \A g \in S \ {h} : StrLess(HotelText[h], HotelText[g])
         IN <<first>> \o SortedNames(S \ {first})

AvailableHotels(e) ==
    IF e.isNone THEN <<>>
    ELSE SortedNames({e.rows[i][HOTEL_EXT] : i \in 1..Len(e.rows)})

\* The elements of a sequence.
Range(s) == {s[i] : i \in 1..Len(s)}

\* data=None of a response, and the data this model leaves out.
NoData == [isNone |-> TRUE]

\* The outcome of one handler: the agent afterwards, whether the call raised,
\* and the response, reduced to its kind, the hotel it is about, the engine
\* queries made for it, in order, and its data (kept for the selection, the
\* simulation and the configuration responses).
Outcome(a, raised, kind, hotel, calls, data) ==
    [agent |-> a, raised |-> raised,
     response |-> [kind |-> kind, hotel |-> hotel, calls |-> calls, data |-> data]]

\* The guard every analysis handler starts with: "Primero selecciona un hotel".
SelectFirst(a) == Outcome(a, FALSE, "select_first", NoneArg, <<>>, NoData)

\* Lines 76-116: the first available hotel whose lower-cased name contains a
\* word of the input is selected and summarised; else the hotels are listed.
HandleHotelSelection(a, n, e, x, user_input) ==
    LET available_hotels == AvailableHotels(e)
        words == Range(SplitWords(user_input))
        hits == {i \in 1..Len(available_hotels) :
                    \E word \in words :
                        Contains(LowerStr(HotelText[available_hotels[i]]), word)}
        hotel == available_hotels[CHOOSE i \in hits : \A j \in hits : i <= j]
        selected == [a EXCEPT !.current_hotel = hotel]
        calls == <<"get_available_hotels", "get_hotel_summary">>
    IN IF available_hotels = <<>>
       THEN Outcome(a, FALSE, "no_data", NoneArg, <<"get_available_hotels">>, NoData)
       ELSE IF hits # {}
       THEN IF HotelSummaryRaises(n, e, x, hotel)
            THEN Outcome(selected, TRUE, "selected", hotel, calls, NoData)
            ELSE Outcome(selected, FALSE, "selected", hotel, calls,
                         HotelSummary(n, e, x, hotel))
       ELSE Outcome(a, FALSE, "hotel_list", NoneArg, <<"get_available_hotels">>,
                    NoData)

IsDigit(c) == c \in Digits

\* The end of the run of digits that starts at position i.
RECURSIVE DigitsEnd(_, _)
DigitsEnd(s, i) ==
    IF i < Len(s) /\ IsDigit(s[i + 1]) THEN DigitsEnd(s, i + 1) ELSE i

\* Lines 314-327: re.search(r'(-?\d+(?:\.\d+)?)%?') and float() of its group:
\* the leftmost run of digits with its sign and its fraction, whose first two
\* digits are kept.
ParsePercentage(s) ==
    LET starts == {i \in 1..Len(s) : IsDigit(s[i])}
        first == CHOOSE i \in starts : \A j \in starts : i <= j
        last == DigitsEnd(s, first)
        fraction == IF last + 2 <= Len(s) /\ s[last + 1] = "." /\ IsDigit(s[last + 2])
                    THEN SubSeq(s, last + 2, DigitsEnd(s, last + 2)) ELSE <<>>
        hundredths == CASE Len(fraction) = 0 -> 0
                        [] Len(fraction) = 1 -> 10 * DigitVal(fraction[1])
                        [] OTHER -> DigitsValue(SubSeq(fraction, 1, 2))
        magnitude == 100 * DigitsValue(SubSeq(s, first, last)) + hundredths
    IN IF starts = {} THEN [found |-> FALSE, value |-> Num(0)]
       ELSE [found |-> TRUE,
             value |-> IF first > 1 /\ s[first - 1] = "-"
                       THEN Fin(0 - magnitude) ELSE Fin(magnitude)]

\* The handlers of the analysis intents for an agent that has a hotel: each
\* makes its engine queries for current_hotel and leaves the agent as it is.
\* The text of the message and the charts are not modelled.
HandleAnalysis(a, n, e, x, intent, user_input) ==
    LET hotel == a.current_hotel
        data == Filter(e, HOTEL_EXT, hotel)
        percentage_match == ParsePercentage(user_input)
        validation == ValidateB2B(x, hotel)
    IN CASE intent = "competitiveness_analysis" ->
              Outcome(a, HotelSummaryRaises(n, e, x, hotel)
                           \/ MarketOpportunitiesRaises(e, hotel),
                      intent, hotel,
                      <<"get_hotel_summary", "identify_price_patterns",
                        "analyze_market_opportunities",
                        "create_competitiveness_dashboard">>, NoData)
         [] intent = "price_comparison" ->
              IF data.rows = <<>>
              THEN Outcome(a, FALSE, "no_prices", hotel, <<>>, NoData)
              ELSE Outcome(a, FALSE, intent, hotel,
                           <<"create_price_comparison_chart">>, NoData)
         [] intent = "market_analysis" ->
              Outcome(a, MarketOpportunitiesRaises(e, hotel), intent, hotel,
                      <<"identify_price_patterns", "analyze_market_opportunities",
                        "create_market_heatmap">>, NoData)
         [] intent = "recommendations" ->
              Outcome(a, HotelSummaryRaises(n, e, x, hotel)
                           \/ MarketOpportunitiesRaises(e, hotel),
                      intent, hotel,
                      <<"generate_recommendations", "get_b2b_recommendations">>, NoData)
         [] intent = "simulation" ->
              IF ~percentage_match.found
              THEN Outcome(a, FALSE, "simulation_usage", hotel, <<>>, NoData)
              ELSE IF ConversionImpactRaises(e, x, hotel) \/ data.rows = <<>>
              THEN Outcome(a, TRUE, intent, hotel,
                           <<"simulate_conversion_impact">>, NoData)
              ELSE Outcome(a, FALSE, intent, hotel, <<"simulate_conversion_impact">>,
                           ConversionImpact(e, x, hotel, percentage_match.value))
         [] intent = "cross_market" ->
              IF data.rows = <<>>
              THEN Outcome(a, FALSE, "no_external", hotel, <<>>, NoData)
              ELSE Outcome(a, \E i \in 1..Len(data.rows) :
                                 CrossMarketRaises(n, FDiv(data.rows[i][COMP],
                                                           data.rows[i]["los"]), hotel),
                           intent, hotel,
                           [i \in 1..(IF Len(data.rows) < 3 THEN Len(data.rows) ELSE 3)
                               |-> "cross_market_analysis"], NoData)
         [] intent = "b2b_configuration" ->
              IF ValidateB2BRaises(x, hotel)
              THEN Outcome(a, TRUE, intent, hotel, <<"validate_b2b_configuration">>, NoData)
              ELSE IF hotel \notin DOMAIN validation
              THEN Outcome(a, FALSE, "no_configuration", hotel,
                           <<"validate_b2b_configuration">>, NoData)
              ELSE Outcome(a, FALSE, intent, hotel,
                           <<"validate_b2b_configuration", "get_b2b_recommendations">>,
                           validation[hotel])
         [] OTHER -> Outcome(a, FALSE, "unsure", hotel, <<>>, NoData)

\* ProcessQuery whose analysis handlers do not ask for a selected hotel.
ProcessQueryUnguarded(a, n, e, x, text) ==
    LET user_input == Strip(LowerStr(text))
        intent == DetectIntent(user_input)
    IN CASE intent = "hotel_selection" -> HandleHotelSelection(a, n, e, x, user_input)
         [] intent = "help" -> Outcome(a, FALSE, "help", NoneArg, <<>>, NoData)
         [] OTHER -> HandleAnalysis(a, n, e, x, intent, user_input)

\* Lines 23-51: process_query(user_input) of an agent over the stored tables.
ProcessQuery(a, n, e, x, text) ==
    LET user_input == Strip(LowerStr(text))
        intent == DetectIntent(user_input)
    IN CASE intent = "hotel_selection" -> HandleHotelSelection(a, n, e, x, user_input)
         [] intent = "help" -> Outcome(a, FALSE, "help", NoneArg, <<>>, NoData)
         [] a.current_hotel = NoneArg -> SelectFirst(a)
         [] OTHER -> HandleAnalysis(a, n, e, x, intent, user_input)

(* ------------------ the application (streamlit_app/main.py) ------------ *)

\* The longest chat history kept.
MaxChat == 4

\* st.selectbox with key "hotel_selector": the option the user last chose while
\* it is among the options, else the first option.
SelectorValue(ss, hotels) ==
    IF ss.hotel_selector \in Range(hotels) THEN ss.hotel_selector ELSE hotels[1]

\* Lines 214-235: the status block of the sidebar, run in every script run.
\* The selector is shown when data is loaded and there are hotels; a value
\* other than the session's current_hotel is copied to the session and to the
\* agent. A selector that is not shown loses its value.
Sidebar(ss, a, e) ==
    LET hotels == AvailableHotels(e)
        selected_hotel == SelectorValue(ss, hotels)
    IN IF ss.data_loaded /\ ~a.isNone /\ hotels # <<>>
       THEN IF selected_hotel # ss.current_hotel
            THEN [session |-> [ss EXCEPT !.current_hotel = selected_hotel,
                                         !.hotel_selector = selected_hotel],
                  agent |-> [a EXCEPT !.current_hotel = selected_hotel]]
            ELSE [session |-> [ss EXCEPT !.hotel_selector = selected_hotel],
                  agent |-> a]
       ELSE [session |-> [ss EXCEPT !.hotel_selector = NoneArg], agent |-> a]

\* LoadAttempt that stores the new processor and agent before it looks at
\* the result of load_data.
LoadAttemptStoresFirst(ss, a, cur, fi, fe, fx, sample) ==
    LET r == LoadResult(<<None, None, None>>, fi, fe, fx)
        stored == [ss EXCEPT !.competitive_analyzer = TRUE,
                             !.data_loaded = @ \/ r.ok,
                             !.using_sample_data = IF r.ok THEN sample ELSE @]
        side == Sidebar(stored, NewAgent, r.external)
    IN [ok |-> r.ok, tables |-> <<r.internal, r.external, r.extranet>>,
        session |-> side.session, agent |-> side.agent]

\* Lines 80-108 and 166-212: a load into a new DataProcessor. On success the
\* processor, a new analyzer and a new agent are stored and the script runs
\* again; on failure nothing is stored and the script runs on.
LoadAttempt(ss, a, cur, fi, fe, fx, sample) ==
    LET r == LoadResult(<<None, None, None>>, fi, fe, fx)
        loaded == [ss EXCEPT !.competitive_analyzer = TRUE,
                             !.data_loaded = TRUE,
                             !.using_sample_data = sample]
        side == IF r.ok THEN Sidebar(loaded, NewAgent, r.external)
                ELSE Sidebar(ss, a, cur[2])
    IN [ok |-> r.ok,
        tables |-> IF r.ok THEN <<r.internal, r.external, r.extranet>> ELSE cur,
        session |-> side.session, agent |-> side.agent]

\* Lines 394-418: the query is appended to the history, the agent answers,
\* the answer is appended and the script runs again, the sidebar with it. An
\* exception of the agent ends the run after the first append. ss is the
\* session after the sidebar of the first run, o the agent's outcome. The
\* answer's message is kept as its kind.
ChatTurn(ss, o, e, text) ==
    LET asked == [ss EXCEPT !.chat_history =
                     Append(@, [role |-> "user", content |-> text])]
        answered == [asked EXCEPT !.chat_history =
                        Append(@, [role |-> "agent", content |-> <<o.response.kind>>])]
    IN IF o.raised THEN [session |-> asked, agent |-> o.agent]
       ELSE Sidebar(answered, o.agent, e)

(* ------------------------------- actions ------------------------------- *)

Init ==
    /\ hound_internal = None
    /\ hound_external = None
    /\ extranet = None
    /\ ret = Returned("__init__", <<>>, FALSE)
    /\ Detached

LoadData(pi, pe, px) ==
    LET r == LoadResult(tables, InternalFiles[pi], ExternalFiles[pe], ExtranetFiles[px])
    IN /\ hound_internal' = r.internal
       /\ hound_external' = r.external
       /\ extranet' = r.extranet
       /\ ret' = Returned("load_data", <<pi, pe, px>>, r.ok)
       /\ UNCHANGED frontend

ValidateB2BConfiguration(h) ==
    /\ ret' = IF ValidateB2BRaises(extranet, h)
              THEN Raised("validate_b2b_configuration", <<h>>)
              ELSE Returned("validate_b2b_configuration", <<h>>, ValidateB2B(extranet, h))
    /\ UNCHANGED tables
    /\ UNCHANGED frontend

CalculateCompetitivenessScore(h) ==
    /\ ret' = IF CompetitivenessScoreRaises(hound_external, extranet, h)
              THEN Raised("calculate_competitiveness_score", <<h>>)
              ELSE Returned("calculate_competitiveness_score", <<h>>,
                            CompetitivenessScore(hound_external, extranet, h))
    /\ UNCHANGED tables
    /\ UNCHANGED frontend

AnalyzeMarketOpportunities(h) ==
    /\ ret' = IF MarketOpportunitiesRaises(hound_external, h)
              THEN Raised("analyze_market_opportunities", <<h>>)
              ELSE Returned("analyze_market_opportunities", <<h>>,
                            MarketOpportunities(hound_external, h))
    /\ UNCHANGED tables
    /\ UNCHANGED frontend

IdentifyPricingAnomalies(h, threshold) ==
    /\ ret' = IF PricingAnomaliesRaises(hound_external, h, threshold)
              THEN Raised("identify_pricing_anomalies", <<h, threshold>>)
              ELSE Returned("identify_pricing_anomalies", <<h, threshold>>,
                            PricingAnomalies(hound_external, h, threshold))
    /\ hound_external' = OffersAfterAnomalies(hound_external, h)
    /\ UNCHANGED <<hound_internal, extranet>>
    /\ UNCHANGED frontend

CrossMarketAnalysis(p, h) ==
    /\ ret' = IF CrossMarketRaises(hound_internal, p, h)
              THEN Raised("cross_market_analysis", <<p, h>>)
              ELSE Returned("cross_market_analysis", <<p, h>>,
                            CrossMarket(hound_internal, p, h))
    /\ UNCHANGED tables
    /\ UNCHANGED frontend

SimulateConversionImpact(h, p) ==
    /\ ret' = IF ConversionImpactRaises(hound_external, extranet, h)
              THEN Raised("simulate_conversion_impact", <<h, p>>)
              ELSE Returned("simulate_conversion_impact", <<h, p>>,
                            ConversionImpact(hound_external, extranet, h, p))
    /\ UNCHANGED tables
    /\ UNCHANGED frontend

GetHotelSummary(h) ==
    /\ ret' = IF HotelSummaryRaises(hound_internal, hound_external, extranet, h)
              THEN Raised("get_hotel_summary", <<h>>)
              ELSE Returned("get_hotel_summary", <<h>>,
                            HotelSummary(hound_internal, hound_external, extranet, h))
    /\ UNCHANGED tables
    /\ UNCHANGED frontend

Load ==
    \E pi \in DOMAIN InternalFiles, pe \in DOMAIN ExternalFiles,
       px \in DOMAIN ExtranetFiles : LoadData(pi, pe, px)

Validate == \E h \in HotelArgs \cup {NoneArg} : ValidateB2BConfiguration(h)

Score == \E h \in HotelArgs : CalculateCompetitivenessScore(h)

Opportunities == \E h \in HotelArgs : AnalyzeMarketOpportunities(h)

\* The thresholds callers pass: the default, and ones below it.
Thresholds == {DefaultThreshold, Num(1), Fin(60), Num(0 - 1)}

DetectAnomalies == \E h \in HotelArgs, t \in Thresholds : IdentifyPricingAnomalies(h, t)

\* The observed per-night prices callers pass.
ObservedPrices == {Num(84), Num(85), Num(100), Num(115), Fin(12650), Num(127)}

CrossAnalyze == \E p \in ObservedPrices, h \in HotelArgs : CrossMarketAnalysis(p, h)

\* The price changes callers simulate, in per cent.
PriceChanges == {Num(0 - 25), Num(0), Num(10), Num(60)}

Simulate == \E h \in HotelArgs, p \in PriceChanges : SimulateConversionImpact(h, p)

Summary == \E h \in HotelArgs : GetHotelSummary(h)

Next == Load \/ Validate \/ Score

Spec == Init /\ [][Next]_vars

(* --------------- the validator over all configuration records --------- *)

FlagChoices == {PyStr("Sí"), PyInt(1), PyStr("No")}

ConfigRecords(hotel) ==
    {CfgRow(hotel, api, html, wrapper, prepago, rate_type, pos, disp) :
        api \in FlagChoices,
        html \in {PyStr("Si"), PyInt(0)},
        wrapper \in {PyInt(1), PyNaN},
        prepago \in {PyStr("1"), PyStr("0")},
        rate_type \in {"PACKAGE", "STANDALONE"},
        pos \in {MarketsARBR, Text(<<" ", " ">>), NoText},
        disp \in {Fin(95), Fin(90), Fin(89)}}

GoodConfig(hotel) ==
    CfgRow(hotel, PyStr("Sí"), PyStr("Si"), PyInt(1), PyStr("1"), "PACKAGE",
           MarketsARBR, Fin(95))

BadConfig(hotel) ==
    CfgRow(hotel, PyStr("No"), PyInt(0), PyInt(1), PyStr("0"), "STANDALONE",
           Text(<<"A", "R">>), Fin(50))

MoreRecords == {GoodConfig("H1"), BadConfig("H1"), GoodConfig("H2"), BadConfig("H2")}

SeqsUpTo(S, n) == UNION {[1..k -> S] : k \in 0..n}

\* The state after a successful load of the sample sources.
Loaded == LoadResult(<<None, None, None>>, InternalA, ExternalA, ExtranetA)

InitConfig ==
    /\ hound_internal = Loaded.internal
    /\ hound_external = Loaded.external
    /\ \E first \in ConfigRecords("H1"), more \in SeqsUpTo(MoreRecords, MaxConfigRows - 1) :
          extranet = Table(ExtranetCols, <<first>> \o more)
    /\ ret = Returned("load_data", <<"internal.csv", "external.csv", "extranet.csv">>, TRUE)
    /\ Detached

NextConfig == Validate

SpecConfig == InitConfig /\ [][NextConfig]_vars

(* ------------------- the scorer over drawn offer tables ---------------- *)

PosChoices == <<"AR", "BR">>

OwnChoices == <<Num(100), Num(200), Num(0), NaN>>

CompChoices == <<Num(90), Num(110), Num(220)>>

NOffers == Len(PosChoices) * Len(OwnChoices) * Len(CompChoices)

\* Offer i of hotel H1, i in 1..NOffers; offer NOffers + 1 is one of hotel H2.
Offer(i) ==
    IF i > NOffers
    THEN ExtRow("H2", "AR", <<1, 3, 2025>>, Num(100), Num(90), "ag1")
    ELSE LET k == i - 1
             own == (k \div Len(CompChoices)) % Len(OwnChoices)
             pos == k \div (Len(CompChoices) * Len(OwnChoices))
         IN ExtRow("H1", PosChoices[pos + 1], <<1, 3, 2025>>, OwnChoices[own + 1],
                   CompChoices[(k % Len(CompChoices)) + 1],
                   IF own = 0 THEN "ag1" ELSE "ag2")

\* The offer tables drawn: up to MaxRows offers, in index order.
OfferTables ==
    {[i \in 1..Len(s) |-> Offer(s[i])] :
        s \in {t \in SeqsUpTo(1..(NOffers + 1), MaxRows) :
                  \A i \in 1..(Len(t) - 1) : t[i] <= t[i + 1]}}

\* The two offers of the scorer's worked example.
ExampleOffers ==
    <<ExtRow("H1", "AR", <<1, 3, 2025>>, Num(100), Num(110), "ag1"),
      ExtRow("H1", "BR", <<2, 3, 2025>>, Num(200), Num(180), "ag2")>>

ScoreConfigs ==
    {<<>>, <<GoodConfig("H1"), GoodConfig("H3")>>, <<BadConfig("H1")>>}

InitScore ==
    \E rows \in OfferTables \cup {ExampleOffers}, cfg \in ScoreConfigs :
        LET r == LoadResult(<<None, None, None>>, InternalA,
                            File(ExternalCols, rows), File(ExtranetCols, cfg))
        IN /\ r.ok
           /\ hound_internal = r.internal
           /\ hound_external = r.external
           /\ extranet = r.extranet
           /\ ret = Returned("load_data",
                             <<"internal.csv", "external.csv", "extranet.csv">>, TRUE)
           /\ Detached

NextScore == Score

SpecScore == InitScore /\ [][NextScore]_vars

(* ---------------- the classifier over drawn offer tables --------------- *)

\* Competitor prices around the thresholds of the classifier, for an own
\* price of 100: gaps of -5.01, -5, 10, 10.01 and 80.
MarketCompChoices == <<Fin(9499), Num(95), Num(110), Fin(11001), Num(180)>>

MarketOwnChoices == <<Num(100), NaN>>

NMarketOffers == Len(PosChoices) * Len(MarketOwnChoices) * Len(MarketCompChoices)

\* Offer i of hotel H1, i in 1..NMarketOffers; the next one is of hotel H2.
MarketOffer(i) ==
    IF i > NMarketOffers
    THEN ExtRow("H2", "AR", <<1, 3, 2025>>, Num(100), Num(180), "ag1")
    ELSE LET k == i - 1
             comp == k % Len(MarketCompChoices)
             own == (k \div Len(MarketCompChoices)) % Len(MarketOwnChoices)
             pos == k \div (Len(MarketCompChoices) * Len(MarketOwnChoices))
         IN ExtRow("H1", PosChoices[pos + 1], <<1, 3, 2025>>,
                   MarketOwnChoices[own + 1], MarketCompChoices[comp + 1],
                   IF comp % 2 = 0 THEN "ag1" ELSE "ag2")

MarketTables ==
    {[i \in 1..Len(s) |-> MarketOffer(s[i])] :
        s \in {t \in SeqsUpTo(1..(NMarketOffers + 1), MaxRows) :
                  \A i \in 1..(Len(t) - 1) : t[i] <= t[i + 1]}}

InitMarket ==
    \E rows \in MarketTables :
        LET r == LoadResult(<<None, None, None>>, InternalA,
                            File(ExternalCols, rows), ExtranetA)
        IN /\ r.ok
           /\ hound_internal = r.internal
           /\ hound_external = r.external
           /\ extranet = r.extranet
           /\ ret = Returned("load_data",
                             <<"internal.csv", "external.csv", "extranet.csv">>, TRUE)
           /\ Detached

NextMarket == Opportunities

SpecMarket == InitMarket /\ [][NextMarket]_vars

(* ----------------- the detector over drawn offer tables ---------------- *)

InitAnomaly ==
    \E rows \in OfferTables :
        LET r == LoadResult(<<None, None, None>>, InternalA,
                            File(ExternalCols, rows), ExtranetA)
        IN /\ r.ok
           /\ hound_internal = r.internal
           /\ hound_external = r.external
           /\ extranet = r.extranet
           /\ ret = Returned("load_data",
                             <<"internal.csv", "external.csv", "extranet.csv">>, TRUE)
           /\ Detached

NextAnomaly == DetectAnomalies

SpecAnomaly == InitAnomaly /\ [][NextAnomaly]_vars

(* --------------- the correlator over drawn rate tables ----------------- *)

\* The contracted rates as the internal source writes them.
RateChoices ==
    <<<<"1", "0", "0">>, <<"1", "1", "0">>, <<"2", "0", "0">>, <<"0">>,
      <<"n", "a", "n">>>>

NRates == Len(PosChoices) * Len(RateChoices)

\* Rate record i of hotel H1, i in 1..NRates; the next one is of hotel H2.
Rate(i) ==
    IF i > NRates THEN IntRow("H2", "AR", <<"1", "0", "0">>)
    ELSE IntRow("H1", PosChoices[((i - 1) \div Len(RateChoices)) + 1],
                RateChoices[((i - 1) % Len(RateChoices)) + 1])

RateTables ==
    {[i \in 1..Len(s) |-> Rate(s[i])] :
        s \in {t \in SeqsUpTo(1..(NRates + 1), MaxRates) :
                  \A i \in 1..(Len(t) - 1) : t[i] <= t[i + 1]}}

InitCross ==
    \E rows \in RateTables :
        LET r == LoadResult(<<None, None, None>>, File(InternalCols, rows),
                            ExternalA, ExtranetA)
        IN /\ r.ok
           /\ hound_internal = r.internal
           /\ hound_external = r.external
           /\ extranet = r.extranet
           /\ ret = Returned("load_data",
                             <<"internal.csv", "external.csv", "extranet.csv">>, TRUE)
           /\ Detached

NextCross == CrossAnalyze

SpecCross == InitCross /\ [][NextCross]_vars

(* ---------------- the simulator over drawn offer tables ---------------- *)

\* The market plays no part in the simulation: the tables of one market.
SimulatorTables == {t \in MarketTables : \A i \in 1..Len(t) : t[i]["PoS"] = "AR"}

InitSimulate ==
    \E rows \in SimulatorTables, cfg \in ScoreConfigs :
        LET r == LoadResult(<<None, None, None>>, InternalA,
                            File(ExternalCols, rows), File(ExtranetCols, cfg))
        IN /\ r.ok
           /\ hound_internal = r.internal
           /\ hound_external = r.external
           /\ extranet = r.extranet
           /\ ret = Returned("load_data",
                             <<"internal.csv", "external.csv", "extranet.csv">>, TRUE)
           /\ Detached

NextSimulate == Simulate

SpecSimulate == InitSimulate /\ [][NextSimulate]_vars

(* ------------------ the queries after a successful load ---------------- *)

InitQueries ==
    \E pi \in DOMAIN InternalFiles, pe \in DOMAIN ExternalFiles,
       px \in DOMAIN ExtranetFiles :
        LET r == LoadResult(<<None, None, None>>, InternalFiles[pi],
                            ExternalFiles[pe], ExtranetFiles[px])
        IN /\ r.ok
           /\ hound_internal = r.internal
           /\ hound_external = r.external
           /\ extranet = r.extranet
           /\ ret = Returned("load_data", <<pi, pe, px>>, TRUE)
           /\ Detached

NextQueries ==
    \/ Validate
    \/ Score
    \/ Opportunities
    \/ DetectAnomalies
    \/ CrossAnalyze
    \/ Simulate
    \/ Summary

SpecQueries == InitQueries /\ [][NextQueries]_vars

(* ------------- the queries about hotels that some table lacks ---------- *)

\* The rows of one hotel of a source.
OnlyHotel(f, col, hotel) == [f EXCEPT !.rows = SelectSeq(@, LAMBDA r : r[col] = hotel)]

InitNotFound ==
    \E fi \in {InternalA, OnlyHotel(InternalA, HOTEL_EXT, "H2"), DropCol(InternalA, PAM)},
       fe \in {ExternalA, OnlyHotel(ExternalA, HOTEL_EXT, "H2")},
       fx \in {ExtranetA, File(ExtranetCols, <<GoodConfig("H3")>>),
               DropCol(ExtranetA, "Api_Tildado")} :
        LET r == LoadResult(<<None, None, None>>, fi, fe, fx)
        IN /\ r.ok
           /\ hound_internal = r.internal
           /\ hound_external = r.external
           /\ extranet = r.extranet
           /\ ret = Returned("load_data",
                             <<"internal.csv", "external.csv", "extranet.csv">>, TRUE)
           /\ Detached

SpecNotFound == InitNotFound /\ [][NextQueries]_vars

(* ================================ claims =============================== *)

SuccessfulLoad == ret.op = "load_data" /\ ret.val

\* C1: a load_data call that returns False leaves the three tables exactly as
\* they were before the call.
C1_FailedLoadLeavesTables ==
    [][(ret'.op = "load_data" /\ ~ret'.val) => tables' = tables]_vars

RequiredInternal == {PAM, "contractcurrencybase_pam", "PoS"}

RequiredExternal == ExternalCols \ {HOTEL_EXT}

RequiredExtranet == ExtranetCols \ {"Hotel"}

\* C2: load_data returns True only when every required column is present in
\* each of the three sources it was given.
C2_MissingColumnFailsLoad ==
    SuccessfulLoad =>
        /\ RequiredInternal \subseteq InternalFiles[ret.arg[1]].cols
        /\ RequiredExternal \subseteq ExternalFiles[ret.arg[2]].cols
        /\ RequiredExtranet \subseteq ExtranetFiles[ret.arg[3]].cols

\* q is num / den (den # 0, in hundredths both) to the nearest hundredth.
IsQuotient(q, num, den) ==
    IsFin(q) /\ 2 * Abs(q.v * den - num * 100) <= Abs(den)

\* The derived columns of row r agree with r's own source fields.
DerivedFromOwnFields(r) ==
    /\ (IsFin(r[OWN]) /\ IsFin(r["los"]) /\ r["los"].v # 0)
          => IsQuotient(r[PPN_OWN], r[OWN].v, r["los"].v)
    /\ (IsFin(r[COMP]) /\ IsFin(r["los"]) /\ r["los"].v # 0)
          => IsQuotient(r[PPN_COMP], r[COMP].v, r["los"].v)
    /\ (IsFin(r[OWN]) /\ IsFin(r[COMP]) /\ r[OWN].v # 0)
          => IsQuotient(r[DIFF], (r[COMP].v - r[OWN].v) * 100, r[OWN].v)
    /\ (IsNaN(r[OWN]) \/ IsNaN(r[COMP])) => IsNaN(r[DIFF])
    /\ (IsFin(r[OWN]) /\ r[OWN].v = 0) => ~IsFin(r[DIFF])

\* C3: after every successful load_data each row of the external-offers table
\* carries the three derived columns, computed from that row's own price,
\* competitor price and stay length as loaded by this call.
C3_DerivedColumnsRecomputed ==
    SuccessfulLoad =>
        /\ {PPN_OWN, PPN_COMP, DIFF} \subseteq hound_external.cols
        /\ Len(hound_external.rows) = Len(ExternalFiles[ret.arg[2]].rows)
        /\ \A i \in 1..Len(hound_external.rows) :
              LET r == hound_external.rows[i]
                  src == ExternalFiles[ret.arg[2]].rows[i]
              IN /\ r[OWN] = src[OWN] /\ r[COMP] = src[COMP] /\ r["los"] = src["los"]
                 /\ DerivedFromOwnFields(r)

\* A second source was loaded over the first and its gaps are the stored ones.
C3_Witness ==
    /\ SuccessfulLoad
    /\ ret.arg[2] = "external_b.csv"
    /\ hound_external.rows[1][DIFF] = Fin(0 - 3333)
    /\ IsNaN(hound_external.rows[2][DIFF])

\* C4: for every offer row with a positive own price the stored gap is
\* negative exactly when the own price is below the competitor's and positive
\* exactly when it is above.
C4_SignConvention ==
    (~hound_external.isNone /\ DIFF \in hound_external.cols) =>
        \A i \in 1..Len(hound_external.rows) :
            LET r == hound_external.rows[i] IN
            (IsFin(r[OWN]) /\ r[OWN].v > 0 /\ IsFin(r[COMP])) =>
                /\ FLt(r[DIFF], Num(0)) <=> r[OWN].v < r[COMP].v
                /\ FLt(Num(0), r[DIFF]) <=> r[OWN].v > r[COMP].v

ValidatorReturned == ret.op = "validate_b2b_configuration" /\ ~ret.raised

CountTrue(v) == Cardinality({c \in DOMAIN v : v[c]})

\* C5: the reported config_score is (passing checks / 7) x 100 rounded to one
\* decimal, and the reported status and priority are the tier of that
\* reported score: optimal/low from 85, good/medium from 70, else critical/high.
C5_ScoreAndTier ==
    ValidatorReturned =>
        \A h \in DOMAIN ret.val :
            LET e == ret.val[h] IN
            /\ Cardinality(DOMAIN e.validations) = 7
            /\ e.config_score % 10 = 0
            /\ Abs(7 * e.config_score - CountTrue(e.validations) * 10000) <= 35
            /\ (e.status = "optimal" /\ e.priority = "low") <=> e.config_score >= 8500
            /\ (e.status = "good" /\ e.priority = "medium")
                  <=> (e.config_score >= 7000 /\ e.config_score < 8500)
            /\ (e.status = "critical" /\ e.priority = "high") <=> e.config_score < 7000
            /\ e.status \in {"optimal", "good", "critical"}

\* A record with five passing checks: 71.4, good.
C5_Witness ==
    /\ ValidatorReturned
    /\ \E h \in DOMAIN ret.val :
          /\ CountTrue(ret.val[h].validations) = 5
          /\ ret.val[h].config_score = 7140
          /\ ret.val[h].status = "good"

\* C6: the critical-issue list has exactly one entry for each failing check
\* among API, HTML, wrapper, prepayment and rate type, and none for a failing
\* availability or market check; a record failing only API has score 85.7,
\* status optimal and the API entry alone.
C6_CriticalIssues ==
    ValidatorReturned =>
        \A h \in DOMAIN ret.val :
            LET e == ret.val[h]
                v == e.validations
                issues == e.critical_issues
            IN /\ ("API no configurado" \in Range(issues)) <=> ~v.api_configured
               /\ ("HTML no configurado" \in Range(issues)) <=> ~v.html_configured
               /\ ("Wrapper no habilitado" \in Range(issues)) <=> ~v.wrapper_configured
               /\ ("Prepago no activo" \in Range(issues)) <=> ~v.prepago_configured
               /\ ("Rate type STANDALONE no recomendado" \in Range(issues))
                     <=> ~v.rate_type_valid
               /\ Len(issues) =
                     Cardinality({c \in DOMAIN v \ {"has_markets", "good_availability"} :
                                    ~v[c]})
               /\ (CountTrue(v) = 6 /\ ~v.api_configured) =>
                     /\ e.config_score = 8570
                     /\ e.status = "optimal"
                     /\ issues = <<"API no configurado">>

\* A record whose only failing check is API.
C6_Witness ==
    /\ ValidatorReturned
    /\ ret.arg = <<NoneArg>>
    /\ "H1" \in DOMAIN ret.val
    /\ CountTrue(ret.val["H1"].validations) = 6
    /\ ret.val["H1"].critical_issues = <<"API no configurado">>

ConfiguredHotels == {extranet.rows[i]["Hotel"] : i \in 1..Len(extranet.rows)}

OutputFields ==
    {"config_score", "status", "priority", "validations", "critical_issues",
     "markets_configured", "rate_type", "availability"}

\* C7: called with a hotel the validator returns that hotel's entry alone, or
\* the empty mapping when the hotel has no record; called with None it returns
\* one entry for each hotel of the configuration table; every entry has the
\* eight output fields.
C7_ValidatorKeys ==
    ValidatorReturned =>
        /\ ret.arg[1] # NoneArg =>
              ret.val = [h \in {ret.arg[1]} \cap ConfiguredHotels |-> ret.val[h]]
        /\ ret.arg[1] = NoneArg => DOMAIN ret.val = ConfiguredHotels
        /\ \A h \in DOMAIN ret.val : DOMAIN ret.val[h] = OutputFields

\* A hotel without a record, asked of a table that has records.
C7_Witness ==
    /\ ValidatorReturned
    /\ ret.arg = <<"H2">>
    /\ ConfiguredHotels = {"H1"}
    /\ DOMAIN ret.val = {}

ScoreReturned == ret.op = "calculate_competitiveness_score" /\ ~ret.raised

OffersOf(h) == Filter(hound_external, HOTEL_EXT, h)

InRange(x) == IsFin(x) /\ x.v >= 0 /\ x.v <= 10000

\* C8: the score is in [0, 100], and so is each of the four components of
\* every hotel that has offers.
C8_ScoreInRange ==
    /\ ScoreReturned => InRange(ret.val)
    /\ \A h \in HotelArgs :
          OffersOf(h).rows # <<>> =>
              /\ InRange(PriceScore(OffersOf(h)))
              /\ InRange(AvailabilityScore(OffersOf(h)))
              /\ InRange(ConsistencyScore(OffersOf(h)))
              /\ InRange(B2BScore(extranet, h))

\* A hotel whose gaps spread by more than 100 points, so that the floor of the
\* consistency component acts.
C8_Witness ==
    /\ ScoreReturned
    /\ ret.arg = <<"H1">>
    /\ \E i \in 1..Len(OffersOf("H1").rows) :
          OffersOf("H1").rows[i][DIFF] = Fin(12000)
    /\ Std(Column(OffersOf("H1"), DIFF)).v > 10000
    /\ ret.val.v > 0

\* C9: a hotel without offer rows scores exactly 0, whatever its
\* configuration record.
C9_NoOffersScoresZero ==
    (ScoreReturned /\ OffersOf(ret.arg[1]).rows = <<>>) => ret.val = Num(0)

\* A hotel without offers whose configuration passes every check.
C9_Witness ==
    /\ ScoreReturned
    /\ ret.arg = <<"H3">>
    /\ OffersOf("H3").rows = <<>>
    /\ B2BScore(extranet, "H3") = Num(100)
    /\ ret.val = Num(0)

\* Every row has finite prices, the own price positive.
Priced(t) == AllRows(t, LAMBDA r : IsFin(r[OWN]) /\ IsFin(r[COMP]) /\ r[OWN].v > 0)

AtOrBelow(t) == Priced(t) /\ AllRows(t, LAMBDA r : r[OWN].v <= r[COMP].v)

Above(t) == Priced(t) /\ AllRows(t, LAMBDA r : r[OWN].v > r[COMP].v)

\* The offers t with every own price replaced by p, cleaned again.
Repriced(t, p) == CleanDerived(SetCol(t, OWN, LAMBDA r : p)).t

\* C10: of two offer sets that differ only in the own prices, one priced at
\* or below the competitors and one priced above them, the first has the
\* greater or equal price component.
C10_CheaperScoresHigher ==
    \A p \in {Num(50), Num(100), Num(200), Num(300)} :
        LET t == OffersOf("H1")
            u == Repriced(t, p)
        IN /\ (t.rows # <<>> /\ AtOrBelow(t) /\ Above(u))
                => PriceScore(t).v >= PriceScore(u).v
           /\ (t.rows # <<>> /\ AtOrBelow(u) /\ Above(t))
                => PriceScore(u).v >= PriceScore(t).v

\* clamp(0, 100, base - stat) in hundredths, for a statistic that is not NaN.
ClampedFrom(base, stat) ==
    IF stat.k = "inf" THEN 0
    ELSE IF stat.k = "ninf" THEN 10000
    ELSE IF base - stat.v < 0 THEN 0
    ELSE IF base - stat.v > 10000 THEN 10000
    ELSE base - stat.v

\* The search combinations among the rows of t.
Combinations(t) ==
    {<<t.rows[i]["PoS"], t.rows[i]["check_in"], t.rows[i]["check_out"],
       t.rows[i]["adults"], t.rows[i]["children"]>> : i \in 1..Len(t.rows)}

OppReturned == ret.op = "analyze_market_opportunities" /\ ~ret.raised

MarketsOf(h) == {OffersOf(h).rows[i]["PoS"] : i \in 1..Len(OffersOf(h).rows)}

\* The gaps of hotel h in market m that are not NaN.
MarketGaps(h, m) == DropNaN(Column(Filter(OffersOf(h), "PoS", m), DIFF))

PriorityOfType(type) ==
    CASE type = "Subir precios" -> "Media"
      [] type = "Bajar precios" -> "Alta"
      [] type = "Monitorear" -> "Baja"

\* C12 as stated: the keys are the markets of the hotel's offers, and the
\* reported mean gap decides the type: below -5 raise prices, above 10 lower
\* prices, otherwise monitor.
C12_ReportedMeanDecidesType ==
    OppReturned =>
        /\ DOMAIN ret.val = MarketsOf(ret.arg[1])
        /\ \A m \in DOMAIN ret.val :
              LET e == ret.val[m] IN
              /\ e.opportunity_type \in {"Subir precios", "Bajar precios", "Monitorear"}
              /\ e.priority = PriorityOfType(e.opportunity_type)
              /\ FLt(e.avg_price_diff, Num(0 - 5)) <=> e.opportunity_type = "Subir precios"
              /\ FLt(Num(10), e.avg_price_diff) <=> e.opportunity_type = "Bajar precios"

\* C12, amended: the keys are the markets of the hotel's offers, and the mean
\* gap of the market's rows before rounding decides the type: below -5 raise
\* prices (medium), above 10 lower prices (high), otherwise monitor (low), so
\* means of exactly -5 and 10 are monitor; the reported mean gap is that mean
\* rounded to two decimals.
C12_MeanDecidesType ==
    OppReturned =>
        /\ DOMAIN ret.val = MarketsOf(ret.arg[1])
        /\ \A m \in DOMAIN ret.val :
              LET e == ret.val[m]
                  gaps == MarketGaps(ret.arg[1], m)
                  n == Len(gaps)
                  total == SumSeq(Values(gaps))
              IN /\ e.opportunity_type \in {"Subir precios", "Bajar precios", "Monitorear"}
                 /\ e.priority = PriorityOfType(e.opportunity_type)
                 /\ (n > 0 /\ total < (0 - 500) * n) <=> e.opportunity_type = "Subir precios"
                 /\ (n > 0 /\ total > 1000 * n) <=> e.opportunity_type = "Bajar precios"
                 /\ IF n = 0 THEN IsNaN(e.avg_price_diff)
                    ELSE /\ IsFin(e.avg_price_diff)
                         /\ 200 * Abs(e.avg_price_diff.v * n - total) <= 101 * n

\* A market with gaps of -5, -5 and -5.01: its mean gap is below -5, is
\* reported as -5.00, and its type is raise prices.
C12_Witness ==
    /\ OppReturned
    /\ ret.arg = <<"H1">>
    /\ DOMAIN ret.val = {"AR"}
    /\ MarketGaps("H1", "AR") = <<Fin(0 - 501), Num(0 - 5), Num(0 - 5)>>
    /\ ret.val["AR"].avg_price_diff = Num(0 - 5)
    /\ ret.val["AR"].opportunity_type = "Subir precios"
    /\ ret.val["AR"].priority = "Media"

Max0(n) == IF n < 0 THEN 0 ELSE n

\* C13: the sub-score of a market is never negative and, when the mean gap
\* and the volatility of that market's rows are defined, it is the average,
\* rounded to two decimals, of max(0, 50 - mean gap), max(0, 50 - volatility)
\* and min(50, volume / 10).
C13_MarketSubScore ==
    OppReturned =>
        \A m \in DOMAIN ret.val :
            LET rows == Filter(OffersOf(ret.arg[1]), "PoS", m)
                mean == Mean4(Column(rows, DIFF))
                volatility == Std(Column(rows, DIFF))
                volume == Len(rows.rows)
                capped == IF volume * 1000 < 500000 THEN volume * 1000 ELSE 500000
                score == ret.val[m].competitiveness_score
            IN /\ ~IsNaN(score) /\ score.k # "ninf"
               /\ IsFin(score) => score.v >= 0
               /\ (IsFin(mean) /\ IsFin(volatility)) =>
                     score = Fin(RoundDiv(Max0(500000 - mean.v)
                                          + Max0(500000 - 100 * volatility.v)
                                          + capped, 300))

\* A market whose volatility exceeds 50, so that the floor of the stability
\* component acts, next to another market of the same hotel.
C13_Witness ==
    /\ OppReturned
    /\ DOMAIN ret.val = {"AR", "BR"}
    /\ ret.val["AR"].search_volume = 2
    /\ IsFin(ret.val["AR"].volatility)
    /\ ret.val["AR"].volatility.v > 5000
    /\ ret.val["AR"].competitiveness_score.v > 0

AnomaliesCalled == ret.op = "identify_pricing_anomalies"

AllEqual(s) == \A i, j \in 1..Len(s) : s[i] = s[j]

\* C14: for a hotel with fewer than two offer rows, or whose gaps are all
\* identical, the detector returns the empty list without raising, whatever
\* the threshold.
C14_DegenerateDetector ==
    LET gaps == Column(OffersOf(ret.arg[1]), DIFF) IN
    (AnomaliesCalled /\ (Len(gaps) < 2 \/ AllEqual(gaps))) =>
        ~ret.raised /\ ret.val = <<>>

\* A hotel with several identical finite gaps, asked with a threshold below
\* zero.
C14_Witness ==
    /\ AnomaliesCalled /\ ~ret.raised
    /\ ret.arg = <<"H1", Num(0 - 1)>>
    /\ Len(OffersOf("H1").rows) >= 2
    /\ AllEqual(Column(OffersOf("H1"), DIFF))
    /\ IsFin(OffersOf("H1").rows[1][DIFF])
    /\ Std(Column(OffersOf("H1"), DIFF)) = Fin(0)
    /\ ret.val = <<>>

\* Entry e reports row r.
Reports(e, r) ==
    /\ e.pos = r["PoS"] /\ e.agency = r["agency_name"]
    /\ e.price_diff_pct = r[DIFF]
    /\ e.our_price = r[OWN] /\ e.competitor_price = r[COMP]

Count(s, P(_)) == Cardinality({i \in 1..Len(s) : P(s[i])})

\* C15: for a hotel whose gaps have a defined, non-zero deviation, the
\* detector returns one entry for each row with |gap - mean| / deviation
\* strictly above the threshold and for no other row, in non-increasing order
\* of absolute gap.
C15_Outliers ==
    LET rows == OffersOf(ret.arg[1]).rows
        gaps == Column(OffersOf(ret.arg[1]), DIFF)
        mean == Mean(gaps)
        std == Std(gaps)
        threshold == ret.arg[2]
        Outlier(r) == IsFin(r[DIFF])
                        /\ Abs(r[DIFF].v - mean.v) * 100 > threshold.v * std.v
    IN (AnomaliesCalled /\ IsFin(std) /\ std.v > 0) =>
          /\ ~ret.raised
          /\ Len(ret.val) = Count(rows, Outlier)
          /\ \A k \in 1..Len(ret.val) :
                Count(ret.val, LAMBDA e : e = ret.val[k])
                  = Count(rows, LAMBDA r : Outlier(r) /\ Reports(ret.val[k], r))
          /\ \A k \in 1..(Len(ret.val) - 1) :
                Abs(ret.val[k].price_diff_pct.v) >= Abs(ret.val[k + 1].price_diff_pct.v)

\* A call that flags some rows and spares another, the flagged ones stored in
\* increasing order of absolute gap.
C15_Witness ==
    /\ AnomaliesCalled /\ ~ret.raised
    /\ Len(ret.val) = 2
    /\ Len(OffersOf(ret.arg[1]).rows) = 3
    /\ Abs(ret.val[1].price_diff_pct.v) > Abs(ret.val[2].price_diff_pct.v)
    /\ Anomalies(hound_external, ret.arg[1], ret.arg[2]) # ret.val

CrossReturned == ret.op = "cross_market_analysis" /\ ~ret.raised

RatesOf(h) == Filter(hound_internal, HOTEL_EXT, h)

\* Entry e reports rate record r.
ReportsRate(e, r) ==
    /\ e.pos = r["PoS"] /\ e.pam_rate = r[PAM]
    /\ e.currency = r["contractcurrencybase_pam"]

SimReturned ==
    /\ ret.op = "simulate_conversion_impact" /\ ~ret.raised
    /\ OffersOf(ret.arg[1]).rows # <<>>

\* The result of simulating the change p for hotel h on the stored tables.
Simulated(h, p) == ConversionImpact(hound_external, extranet, h, p)

\* C17: for one hotel, a price change that is not greater never yields fewer
\* new competitive positions.
C17_SimulationMonotonic ==
    SimReturned =>
        \A p2 \in PriceChanges :
            LET other == Simulated(ret.arg[1], p2).new_competitive_positions IN
            /\ ret.arg[2].v <= p2.v => ret.val.new_competitive_positions >= other
            /\ p2.v <= ret.arg[2].v => ret.val.new_competitive_positions <= other

\* A price rise that loses some competitive positions and a price cut that
\* wins some, both short of the bounds.
C17_Witness ==
    /\ SimReturned
    /\ ret.arg[2] = Num(10)
    /\ ret.val.total_positions = 3
    /\ ret.val.current_competitive_positions = 2
    /\ ret.val.new_competitive_positions = 1
    /\ Simulated(ret.arg[1], Num(0 - 25)).new_competitive_positions = 3
    /\ Simulated(ret.arg[1], Num(60)).new_competitive_positions = 0

\* C18: new_avg_diff_pct is the mean gap plus the change, to two decimals;
\* current_competitive_positions is the number of rows with a gap below 0;
\* new_competitive_positions is current + (-2.0 x change / 100) x total,
\* floored at 0, capped at total and rounded, so it lies in [0, total].
C18_SimulatorArithmetic ==
    SimReturned =>
        LET rows == OffersOf(ret.arg[1]).rows
            gaps == DropNaN(Column(OffersOf(ret.arg[1]), DIFF))
            n == Len(gaps)
            p == ret.arg[2].v
            total == Len(rows)
            negative == Count(rows, LAMBDA r : IsFin(r[DIFF]) /\ r[DIFF].v < 0)
            moved == negative * 10000 - 2 * p * total
            new == ret.val.new_competitive_positions
        IN /\ ret.val.total_positions = total
           /\ ret.val.current_competitive_positions = negative
           /\ IF n = 0 THEN IsNaN(ret.val.new_avg_diff_pct)
              ELSE /\ IsFin(ret.val.new_avg_diff_pct)
                   /\ 200 * Abs(ret.val.new_avg_diff_pct.v * n
                                  - (SumSeq(Values(gaps)) + p * n)) <= 101 * n
           /\ new \in 0..total
           /\ moved <= 0 => new = 0
           /\ moved >= total * 10000 => new = total
           /\ (0 < moved /\ moved < total * 10000) =>
                 2 * Abs(new * 10000 - moved) <= 10000

\* A rise of 10 per cent for a hotel with a row without a gap: the mean gap
\* moves from -5 to 5 and one of two competitive positions is lost.
C18_Witness ==
    /\ SimReturned
    /\ ret.arg[2] = Num(10)
    /\ ret.val.total_positions = 3
    /\ \E i \in 1..3 : IsNaN(OffersOf(ret.arg[1]).rows[i][DIFF])
    /\ ret.val.current_avg_diff_pct = Num(0 - 5)
    /\ ret.val.new_avg_diff_pct = Num(5)
    /\ ret.val.current_competitive_positions = 2
    /\ ret.val.new_competitive_positions = 1

\* The estimate for hotel h under the single configuration record c.
EstimateUnder(c, h, p) ==
    ConversionImpact(hound_external, Table(ExtranetCols, <<c>>), h, p)
        .estimated_conversion_change_pct.v

ScoreUnder(c, h) == ValidateB2B(Table(ExtranetCols, <<c>>), h)[h].config_score

\* C19: for a hotel with a configuration record the multiplier
\* 0.5 + (config score / 100) x 0.5 lies in [0.5, 1.0] and the estimated
\* conversion change is round(-2.0 x change x 0.5 x multiplier, 2); of two
\* configuration records, the one with the higher score never gives the
\* smaller absolute estimate.
C19_ConfigurationMultiplier ==
    (SimReturned /\ ret.arg[1] \in ConfiguredHotels) =>
        LET h == ret.arg[1]
            p == ret.arg[2]
            score == ValidateB2B(extranet, h)[h].config_score
            multiplier == 5000 + score \div 2
        IN /\ multiplier \in 5000..10000
           /\ 2 * Abs(ret.val.estimated_conversion_change_pct.v * 10000
                        - (0 - p.v) * multiplier) <= 10000
           /\ ret.val.b2b_config_impact.v <= 0
           /\ \A c, d \in {GoodConfig(h), BadConfig(h),
                            CfgRow(h, PyStr("Sí"), PyInt(0), PyInt(1), PyStr("0"),
                                   "PACKAGE", MarketsARBR, Fin(95))} :
                 ScoreUnder(c, h) >= ScoreUnder(d, h) =>
                     Abs(EstimateUnder(c, h, p)) >= Abs(EstimateUnder(d, h, p))

\* A hotel whose record fails checks, so that the multiplier is below 1, and
\* a price cut with a positive estimate.
C19_Witness ==
    /\ SimReturned
    /\ ret.arg = <<"H1", Num(0 - 25)>>
    /\ "H1" \in ConfiguredHotels
    /\ ValidateB2B(extranet, "H1")["H1"].config_score < 10000
    /\ ret.val.estimated_conversion_change_pct.v > 0
    /\ ret.val.estimated_conversion_change_pct.v < 2500
    /\ ret.val.b2b_config_impact.v < 0

\* The last query asked again, with the same arguments, of the tables as
\* they are now.
Repeated ==
    LET a == ret.arg IN
    CASE ret.op = "validate_b2b_configuration" ->
           IF ValidateB2BRaises(extranet, a[1]) THEN Raised(ret.op, a)
           ELSE Returned(ret.op, a, ValidateB2B(extranet, a[1]))
      [] ret.op = "calculate_competitiveness_score" ->
           IF CompetitivenessScoreRaises(hound_external, extranet, a[1])
           THEN Raised(ret.op, a)
           ELSE Returned(ret.op, a, CompetitivenessScore(hound_external, extranet, a[1]))
      [] ret.op = "analyze_market_opportunities" ->
           IF MarketOpportunitiesRaises(hound_external, a[1]) THEN Raised(ret.op, a)
           ELSE Returned(ret.op, a, MarketOpportunities(hound_external, a[1]))
      [] ret.op = "identify_pricing_anomalies" ->
           IF PricingAnomaliesRaises(hound_external, a[1], a[2]) THEN Raised(ret.op, a)
           ELSE Returned(ret.op, a, PricingAnomalies(hound_external, a[1], a[2]))
      [] ret.op = "cross_market_analysis" ->
           IF CrossMarketRaises(hound_internal, a[1], a[2]) THEN Raised(ret.op, a)
           ELSE Returned(ret.op, a, CrossMarket(hound_internal, a[1], a[2]))
      [] ret.op = "simulate_conversion_impact" ->
           IF ConversionImpactRaises(hound_external, extranet, a[1])
           THEN Raised(ret.op, a)
           ELSE Returned(ret.op, a,
                         ConversionImpact(hound_external, extranet, a[1], a[2]))
      [] ret.op = "get_hotel_summary" ->
           IF HotelSummaryRaises(hound_internal, hound_external, extranet, a[1])
           THEN Raised(ret.op, a)
           ELSE Returned(ret.op, a,
                         HotelSummary(hound_internal, hound_external, extranet, a[1]))
      [] OTHER -> ret

Absent(t, col, h) == Filter(t, col, h).rows = <<>>

\* C21: after a successful load, a query about a hotel absent from the table
\* it reads does not raise and returns its empty or negative result: the
\* validator and the classifier the empty mapping, the scorer 0, the detector
\* the empty list, the correlator match_found false, the simulator a result
\* with the error field only, the summary zero record counts.
C21_NotFoundIsNoException ==
    LET h == ret.arg[1] IN
    /\ (ret.op = "validate_b2b_configuration" /\ h # NoneArg
          /\ Absent(extranet, "Hotel", h))
         => ~ret.raised /\ DOMAIN ret.val = {}
    /\ (ret.op = "calculate_competitiveness_score" /\ Absent(hound_external, HOTEL_EXT, h))
         => ~ret.raised /\ ret.val = Num(0)
    /\ (ret.op = "analyze_market_opportunities" /\ Absent(hound_external, HOTEL_EXT, h))
         => ~ret.raised /\ DOMAIN ret.val = {}
    /\ (ret.op = "identify_pricing_anomalies" /\ Absent(hound_external, HOTEL_EXT, h))
         => ~ret.raised /\ ret.val = <<>>
    /\ (ret.op = "cross_market_analysis"
          /\ Absent(hound_internal, HOTEL_EXT, ret.arg[2]))
         => ~ret.raised /\ ~ret.val.match_found
    /\ (ret.op = "simulate_conversion_impact" /\ Absent(hound_external, HOTEL_EXT, h))
         => ~ret.raised /\ DOMAIN ret.val = {"error"}
    /\ (ret.op = "get_hotel_summary" /\ Absent(hound_external, HOTEL_EXT, h)
          /\ Absent(hound_internal, HOTEL_EXT, h) /\ Absent(extranet, "Hotel", h))
         => /\ ~ret.raised
            /\ ret.val.total_external_records = 0
            /\ ret.val.total_internal_records = 0
            /\ ret.val.competitiveness_score = Num(0)

\* The simulator asked about a hotel that has rate records and a
\* configuration record but no offers.
C21_Witness ==
    /\ ret.op = "simulate_conversion_impact" /\ ~ret.raised
    /\ ret.arg[1] = "H1"
    /\ Absent(hound_external, HOTEL_EXT, "H1")
    /\ ~Absent(hound_internal, HOTEL_EXT, "H1")
    /\ ~Absent(extranet, "Hotel", "H1")
    /\ ret.val = [error |-> "Hotel no encontrado"]

\* C22: when the mean or the deviation of a scored hotel's gaps is undefined,
\* the price component, respectively the consistency component, is 0, and
\* the returned score is a finite number.
C22_DegenerateStatisticsFloor ==
    (ScoreReturned /\ OffersOf(ret.arg[1]).rows # <<>>) =>
        LET data == OffersOf(ret.arg[1])
            gaps == Column(data, DIFF)
        IN /\ IsFin(ret.val)
           /\ IsNaN(Mean(gaps)) => PriceScore(data) = Num(0)
           /\ IsNaN(Std(gaps)) => ConsistencyScore(data) = Num(0)

\* C23: a scored hotel's mean gap, gap volatility, price component and
\* consistency component equal those computed over only the rows whose own
\* price is a non-zero number.
C23_UndefinedGapExcluded ==
    (ScoreReturned /\ OffersOf(ret.arg[1]).rows # <<>>) =>
        LET data == OffersOf(ret.arg[1])
            remaining == [data EXCEPT !.rows =
                SelectSeq(@, LAMBDA r : IsFin(r[OWN]) /\ r[OWN].v # 0)]
        IN /\ Mean(Column(data, DIFF)) = Mean(Column(remaining, DIFF))
           /\ Std(Column(data, DIFF)) = Std(Column(remaining, DIFF))
           /\ PriceScore(data) = PriceScore(remaining)
           /\ ConsistencyScore(data) = ConsistencyScore(remaining)

\* The entries of a market-enablement cell that are not blank; none when the
\* cell is missing.
EnabledEntries(cell) ==
    IF cell.nan THEN {}
    ELSE {m \in Range(SplitCommaSpace(cell.s)) : Strip(m) # <<>>}

\* C24: the has_markets check of a validated record passes iff its
\* market-enablement cell has a non-blank entry; a record without one fails
\* the check and its reported markets hold no non-blank entry.
C24_HasMarkets ==
    ValidatorReturned =>
        \A h \in DOMAIN ret.val :
            LET records == Filter(extranet, "Hotel", h).rows
                cell == records[Len(records)]["Pos_Tildado"]
                e == ret.val[h]
            IN /\ e.validations.has_markets <=> EnabledEntries(cell) # {}
               /\ EnabledEntries(cell) = {} =>
                     \A m \in Range(e.markets_configured) : Strip(m) = <<>>

\* C25: for a hotel with offers and without a configuration record the
\* simulator's multiplier is 0.5, so that its estimated conversion change is
\* round(-2.0 x change x 0.5 x 0.5, 2) and is never larger in absolute value
\* than the estimate of the same hotel under a configuration record.
C25_NoRecordMultiplier ==
    (SimReturned /\ ret.arg[1] \notin ConfiguredHotels
                 /\ OffersOf(ret.arg[1]).rows # <<>>) =>
        LET h == ret.arg[1]
            p == ret.arg[2]
            estimate == ret.val.estimated_conversion_change_pct.v
        IN /\ 2 * Abs(estimate * 10000 - (0 - p.v) * 5000) <= 10000
           /\ \A c \in {GoodConfig(h), BadConfig(h)} :
                 Abs(estimate) <= Abs(EstimateUnder(c, h, p))

(* --------------------- the agent over loaded tables -------------------- *)

\* _handle_help, lines 480-519: the example phrases of the guide, each with
\* the intent of the section it is listed under.
GuidePhrases ==
    {[intent |-> "hotel_selection",
      text |-> <<"s", "e", "l", "e", "c", "c", "i", "o", "n", "a", "r", " ", "h", "o", "t", "e", "l", " ", "P", "a", "r", "a", "d", "i", "s", "e", " ", "R", "e", "s", "o", "r", "t">>],
     [intent |-> "hotel_selection",
      text |-> <<"v", "e", "r", " ", "h", "o", "t", "e", "l", "e", "s", " ", "d", "i", "s", "p", "o", "n", "i", "b", "l", "e", "s">>],
     [intent |-> "hotel_selection",
      text |-> <<"c", "a", "m", "b", "i", "a", "r", " ", "a", " ", "O", "c", "e", "a", "n", " ", "V", "i", "e", "w", " ", "G", "r", "a", "n", "d">>],
     [intent |-> "competitiveness_analysis",
      text |-> <<"a", "n", "á", "l", "i", "s", "i", "s", " ", "d", "e", " ", "c", "o", "m", "p", "e", "t", "i", "t", "i", "v", "i", "d", "a", "d">>],
     [intent |-> "competitiveness_analysis",
      text |-> <<"m", "o", "s", "t", "r", "a", "r", " ", "s", "c", "o", "r", "e", " ", "d", "e", " ", "c", "o", "m", "p", "e", "t", "i", "t", "i", "v", "i", "d", "a", "d">>],
     [intent |-> "competitiveness_analysis",
      text |-> <<"¿", "q", "u", "é", " ", "t", "a", "l", " ", "e", "s", "t", "á", " ", "m", "i", " ", "h", "o", "t", "e", "l", "?">>],
     [intent |-> "price_comparison",
      text |-> <<"c", "o", "m", "p", "a", "r", "a", "r", " ", "p", "r", "e", "c", "i", "o", "s">>],
     [intent |-> "price_comparison",
      text |-> <<"d", "i", "f", "e", "r", "e", "n", "c", "i", "a", "s", " ", "d", "e", " ", "p", "r", "e", "c", "i", "o">>],
     [intent |-> "price_comparison",
      text |-> <<"¿", "e", "s", "t", "a", "m", "o", "s", " ", "m", "á", "s", " ", "c", "a", "r", "o", "s", "?">>],
     [intent |-> "market_analysis",
      text |-> <<"a", "n", "a", "l", "i", "z", "a", "r", " ", "m", "e", "r", "c", "a", "d", "o", "s">>],
     [intent |-> "market_analysis",
      text |-> <<"p", "a", "t", "r", "o", "n", "e", "s", " ", "p", "o", "r", " ", "p", "a", "í", "s">>],
     [intent |-> "market_analysis",
      text |-> <<"o", "p", "o", "r", "t", "u", "n", "i", "d", "a", "d", "e", "s", " ", "p", "o", "r", " ", "P", "o", "S">>],
     [intent |-> "b2b_configuration",
      text |-> <<"r", "e", "v", "i", "s", "a", "r", " ", "c", "o", "n", "f", "i", "g", "u", "r", "a", "c", "i", "ó", "n", " ", "B", "2", "B">>],
     [intent |-> "b2b_configuration",
      text |-> <<"e", "s", "t", "a", "d", "o", " ", "d", "e", " ", "e", "x", "t", "r", "a", "n", "e", "t">>],
     [intent |-> "b2b_configuration",
      text |-> <<"c", "o", "n", "f", "i", "g", "u", "r", "a", "c", "i", "ó", "n", " ", "a", "p", "i">>],
     [intent |-> "recommendations",
      text |-> <<"d", "a", "m", "e", " ", "r", "e", "c", "o", "m", "e", "n", "d", "a", "c", "i", "o", "n", "e", "s">>],
     [intent |-> "recommendations",
      text |-> <<"q", "u", "é", " ", "d", "e", "b", "o", " ", "h", "a", "c", "e", "r">>],
     [intent |-> "recommendations",
      text |-> <<"e", "s", "t", "r", "a", "t", "e", "g", "i", "a", " ", "d", "e", " ", "p", "r", "e", "c", "i", "o", "s">>],
     [intent |-> "simulation",
      text |-> <<"s", "i", "m", "u", "l", "a", "r", " ", "-", "1", "0", "%">>],
     [intent |-> "simulation",
      text |-> <<"s", "i", "m", "u", "l", "a", "r", " ", "+", "5", "%">>],
     [intent |-> "simulation",
      text |-> <<"i", "m", "p", "a", "c", "t", "o", " ", "d", "e", " ", "c", "a", "m", "b", "i", "o", " ", "d", "e", " ", "p", "r", "e", "c", "i", "o">>],
     [intent |-> "cross_market",
      text |-> <<"a", "n", "á", "l", "i", "s", "i", "s", " ", "c", "r", "o", "s", "s", " ", "m", "a", "r", "k", "e", "t">>],
     [intent |-> "cross_market",
      text |-> <<"p", "r", "e", "c", "i", "o", "s", " ", "e", "n", " ", "o", "t", "r", "o", "s", " ", "m", "e", "r", "c", "a", "d", "o", "s">>]}

\* streamlit_app/main.py, lines 371-392: the queries of the quick buttons.
QuickActions ==
    {[intent |-> "competitiveness_analysis",
      text |-> <<"a", "n", "á", "l", "i", "s", "i", "s", " ", "d", "e", " ", "c", "o", "m", "p", "e", "t", "i", "t", "i", "v", "i", "d", "a", "d">>],
     [intent |-> "b2b_configuration",
      text |-> <<"c", "o", "n", "f", "i", "g", "u", "r", "a", "c", "i", "ó", "n", " ", "b", "2", "b">>],
     [intent |-> "price_comparison",
      text |-> <<"c", "o", "m", "p", "a", "r", "a", "r", " ", "p", "r", "e", "c", "i", "o", "s">>],
     [intent |-> "market_analysis",
      text |-> <<"a", "n", "a", "l", "i", "z", "a", "r", " ", "m", "e", "r", "c", "a", "d", "o", "s">>],
     [intent |-> "recommendations",
      text |-> <<"d", "a", "m", "e", " ", "r", "e", "c", "o", "m", "e", "n", "d", "a", "c", "i", "o", "n", "e", "s">>]}

\* The documented selection command for a hotel.
SelectCommand(h) == <<"s", "e", "l", "e", "c", "c", "i", "o", "n", "a", "r", " ", "h", "o", "t", "e", "l", " ">> \o HotelText[h]

\* The texts users send: the documented ones and a text without keyword.
QueryTexts ==
    {p.text : p \in GuidePhrases \cup QuickActions}
        \cup {SelectCommand(h) : h \in HotelArgs} \cup {<<"h", "o", "l", "a">>}

ProcessQueryCall(text) ==
    /\ ~agent.isNone
    /\ LET o == ProcessQuery(agent, hound_internal, hound_external, extranet, text)
       IN /\ agent' = o.agent
          /\ ret' = IF o.raised THEN Raised("process_query", <<text>>)
                    ELSE Returned("process_query", <<text>>, o.response)
    /\ UNCHANGED <<tables, session_state>>

Ask == \E text \in QueryTexts : ProcessQueryCall(text)

\* The offers of the sample with a third hotel.
ExternalThree ==
    [ExternalA EXCEPT !.rows =
        Append(@, ExtRow("H3", "AR", <<1, 3, 2025>>, Num(100), Num(95), "ag1"))]

\* A new agent over the tables of a successful load.
InitAgent ==
    \E fe \in {ExternalA, ExternalThree, OnlyHotel(ExternalA, HOTEL_EXT, "H2")} :
        LET r == LoadResult(<<None, None, None>>, InternalA, fe, ExtranetA)
        IN /\ r.ok
           /\ hound_internal = r.internal
           /\ hound_external = r.external
           /\ extranet = r.extranet
           /\ ret = Returned("__init__", <<>>, Outcome(NewAgent, FALSE, "none", NoneArg,
                                                      <<>>, NoData).response)
           /\ agent = NewAgent
           /\ session_state = FreshSession

NextAgent == Ask

SpecAgent == InitAgent /\ [][NextAgent]_vars

Asked == ret.op = "process_query"

\* The intent process_query detects in each text.
IntentOf == [text \in QueryTexts |-> DetectIntent(Strip(LowerStr(text)))]

\* The intent of the query the agent was last asked.
AskedIntent == IntentOf[ret.arg[1]]

\* C26: the agent's current_hotel is None or an available hotel; a step that
\* changes it is a hotel_selection query; and a query of any other intent
\* but help, asked while it is None, returns the select-a-hotel-first
\* response without an engine query and leaves the agent as it was.
C26_CurrentHotelAvailable ==
    [][/\ \/ agent'.current_hotel = NoneArg
          \/ agent'.current_hotel \in Range(AvailableHotels(hound_external'))
       /\ agent'.current_hotel # agent.current_hotel =>
             AskedIntent' = "hotel_selection"
       /\ (agent.current_hotel = NoneArg
             /\ AskedIntent' \notin {"hotel_selection", "help"}) =>
             /\ ~ret'.raised
             /\ ret'.val.kind = "select_first"
             /\ ret'.val.calls = <<>>
             /\ agent' = agent]_vars

\* The competitiveness query asked before any hotel is selected.
C26_Witness ==
    /\ Asked /\ ~ret.raised
    /\ ret.arg[1] = <<"a", "n", "á", "l", "i", "s", "i", "s", " ", "d", "e", " ", "c", "o", "m", "p", "e", "t", "i", "t", "i", "v", "i", "d", "a", "d">>
    /\ agent.current_hotel = NoneArg
    /\ ret.val.kind = "select_first"

\* C27: after the selection command of an available hotel the agent's
\* current_hotel is that hotel and the response is its summary.
C27_SelectionCommand ==
    \A h \in Range(AvailableHotels(hound_external)) :
        (Asked /\ ret.arg[1] = SelectCommand(h)) =>
            /\ ~ret.raised
            /\ agent.current_hotel = h
            /\ ret.val.kind = "selected"
            /\ ret.val.hotel = h
            /\ ret.val.data = HotelSummary(hound_internal, hound_external, extranet, h)

\* C28: every quick-button query and every example phrase of the guide is
\* mapped by _detect_intent to the intent of the button or section it is
\* listed under.
C28_DocumentedPhrases ==
    Asked =>
        \A p \in GuidePhrases \cup QuickActions :
            p.text = ret.arg[1] => AskedIntent = p.intent

(* ---------------------- the application's script runs ------------------ *)

\* The sample files on disk and the files users upload.
SampleExternal == {ExternalA, ExternalBadDate}

UploadedInternal == {InternalA, Unreadable}

UploadedExternal ==
    {ExternalA, ExternalThree, OnlyHotel(ExternalA, HOTEL_EXT, "H2"), ExternalBadDate}

\* The queries sent in the chat: two selection commands and two quick buttons.
ChatTexts ==
    {SelectCommand("H1"), SelectCommand("H2"),
     <<"a", "n", "á", "l", "i", "s", "i", "s", " ", "d", "e", " ", "c", "o", "m", "p", "e", "t", "i", "t", "i", "v", "i", "d", "a", "d">>,
     <<"d", "a", "m", "e", " ", "r", "e", "c", "o", "m", "e", "n", "d", "a", "c", "i", "o", "n", "e", "s">>}

\* The button "Usar Datos de Ejemplo".
UseSampleData ==
    \E fe \in SampleExternal :
    \E r \in {LoadAttempt(session_state, agent, tables, InternalA, fe, ExtranetA, TRUE)} :
        /\ hound_internal' = r.tables[1]
        /\ hound_external' = r.tables[2]
        /\ extranet' = r.tables[3]
        /\ session_state' = r.session
        /\ agent' = r.agent
        /\ ret' = Returned("load_sample_data", <<>>, r.ok)

\* The button "Cargar Datos Personalizados" with the three files uploaded.
LoadCustomData ==
    \E fi \in UploadedInternal, fe \in UploadedExternal :
    \E r \in {LoadAttempt(session_state, agent, tables, fi, fe, ExtranetA, FALSE)} :
        /\ hound_internal' = r.tables[1]
        /\ hound_external' = r.tables[2]
        /\ extranet' = r.tables[3]
        /\ session_state' = r.session
        /\ agent' = r.agent
        /\ ret' = Returned("load_custom_data", <<>>, r.ok)

\* A choice in the hotel selector of the sidebar.
SelectHotel ==
    /\ session_state.data_loaded /\ ~agent.isNone
    /\ \E h \in Range(AvailableHotels(hound_external)) :
          LET side == Sidebar([session_state EXCEPT !.hotel_selector = h], agent,
                              hound_external)
          IN /\ session_state' = side.session
             /\ agent' = side.agent
             /\ ret' = Returned("hotel_selector", <<h>>, TRUE)
    /\ UNCHANGED tables

\* A query sent from the text input or a quick button.
SendQuery ==
    /\ session_state.data_loaded /\ ~agent.isNone
    /\ Len(session_state.chat_history) + 2 <= MaxChat
    /\ \E text \in ChatTexts :
       \E side \in {Sidebar(session_state, agent, hound_external)} :
       \E o \in {ProcessQuery(side.agent, hound_internal, hound_external, extranet, text)} :
       \E t \in {ChatTurn(side.session, o, hound_external, text)} :
          /\ session_state' = t.session
          /\ agent' = t.agent
          /\ ret' = IF o.raised THEN Raised("process_query", <<text>>)
                    ELSE Returned("process_query", <<text>>, o.response)
    /\ UNCHANGED tables

\* The first run of the script: nothing is loaded.
InitApp ==
    /\ hound_internal = None
    /\ hound_external = None
    /\ extranet = None
    /\ agent = NoAgent
    /\ session_state = FreshSession
    /\ ret = Returned("__init__", <<>>, FALSE)

NextApp == UseSampleData \/ LoadCustomData \/ SelectHotel \/ SendQuery

SpecApp == InitApp /\ [][NextApp]_vars

LoadAttempted == ret.op \in {"load_sample_data", "load_custom_data"}

\* C29: whenever the session's current_hotel is set, the agent's
\* current_hotel is the same hotel and it is a hotel of the loaded offers.
C29_SessionAndAgentAgree ==
    session_state.current_hotel # NoneArg =>
        /\ ~agent.isNone
        /\ agent.current_hotel = session_state.current_hotel
        /\ session_state.current_hotel \in Range(AvailableHotels(hound_external))

\* C30: a step that is a failed load attempt leaves the stored tables, the
\* analyzer, the agent, data_loaded and using_sample_data as they were.
C30_FailedLoadKeepsSession ==
    [][(LoadAttempted' /\ ret'.val = FALSE) =>
          /\ tables' = tables
          /\ agent' = agent
          /\ session_state'.competitive_analyzer = session_state.competitive_analyzer
          /\ session_state'.data_loaded = session_state.data_loaded
          /\ session_state'.using_sample_data = session_state.using_sample_data]_vars

\* A failed upload after the sample was loaded and a hotel was chosen in the
\* chat.
C30_Witness ==
    /\ ret.op = "load_custom_data" /\ ret.val = FALSE
    /\ session_state.data_loaded /\ session_state.using_sample_data
    /\ agent.current_hotel = "H2"
    /\ Len(session_state.chat_history) = 2

====
